---------------------------- MODULE Spec2Model ----------------------------
(***************************************************************************)
(* A model of the UBJSON codec github.com/jmank88/ubjson: the marker       *)
(* table, the integer-width selector, the binary and block token writers   *)
(* and readers, the encoder and the decoder with its container             *)
(* sub-decoders.                                                           *)
(*                                                                         *)
(* Bytes are the integers 0..255 and a wire image is a sequence of bytes,  *)
(* in the binary form and in the block form alike (the block form's        *)
(* brackets, digits, tabs and newlines are bytes of the image).            *)
(*                                                                         *)
(* A Go int / int64 is a sequence of 8 bytes, big-endian two's complement  *)
(* (I64): the model keeps the full 64-bit width.  The sized integers       *)
(* int8, uint8, int16, int32 are plain integers.                           *)
(*                                                                         *)
(* Floating-point values (markers d and D) are outside the model: no host  *)
(* value is a float and no input holds a float marker.                     *)
(*                                                                         *)
(* reader.readString takes the length cap as its argument; the decoder of  *)
(* decode.go calls it without one.  The model hands it the decoder's field *)
(* max, the MaxCollectionAlloc of the specification, whose default is      *)
(* DefaultMaxCollectionAlloc; nothing else in the decoder reads max.       *)
(***************************************************************************)
EXTENDS Integers, Sequences, FiniteSets, TLC

(***************************************************************************)
(* Markers (marker.go).                                                    *)
(***************************************************************************)
NullMarker == 90
NoOpMarker == 78
TrueMarker == 84
FalseMarker == 70
UInt8Marker == 85
Int8Marker == 105
Int16Marker == 73
Int32Marker == 108
Int64Marker == 76
Float32Marker == 100
Float64Marker == 68
HighPrecNumMarker == 72
CharMarker == 67
StringMarker == 83
ArrayStartMarker == 91
ObjectStartMarker == 123
arrayEndMarker == 93
objectEndMarker == 125
countMarker == 35
typeMarker == 36

\* A type of kind k (see "Host values" below).
T(k) == [k |-> k]

\* F(x) with x evaluated once.
Bind(x, F(_)) == CHOOSE r \in {F(z) : z \in {x}} : TRUE

(***************************************************************************)
(* 64-bit integers as 8 big-endian bytes.                                  *)
(***************************************************************************)
\* The int64 of a value that fits 32 bits (sign extension).
I64Of(n) ==
    LET f == IF n < 0 THEN 255 ELSE 0
    IN  <<f, f, f, f, (n \div 16777216) % 256, (n \div 65536) % 256,
          (n \div 256) % 256, n % 256>>

IsNeg64(v) == v[1] >= 128

\* v is in [-2^31, 2^31 - 1].
Fits32(v) ==
    \/ (\A i \in 1..4 : v[i] = 0) /\ v[5] < 128
    \/ (\A i \in 1..4 : v[i] = 255) /\ v[5] >= 128

\* The value of the low n bytes (n <= 4) of v read as a signed integer:
\* Go's conversions int8(v), int16(v), int32(v).
TruncS(v, n) ==
    LET hi == v[9 - n]
        top == IF hi >= 128 THEN hi - 256 ELSE hi
        Rest[i \in (9 - n)..8] ==
            IF i = 9 - n THEN top ELSE Rest[i - 1] * 256 + v[i]
    IN  Rest[8]

\* The value of an int64 that fits 32 bits.
ToInt(v) == TruncS(v, 4)

LexLess(a, b) ==
    \E i \in 1..Len(a) : a[i] < b[i] /\ \A j \in 1..(i - 1) : a[j] = b[j]

\* Signed comparison of two int64.
Less64(a, b) ==
    LexLess([a EXCEPT ![1] = (a[1] + 128) % 256], [b EXCEPT ![1] = (b[1] + 128) % 256])

Le64(a, b) == a = b \/ Less64(a, b)

\* Two's complement negation, and doubling, modulo 2^64.
Neg64(v) ==
    LET Carry[i \in 1..9] ==
            IF i = 9 THEN 1 ELSE (255 - v[i] + Carry[i + 1]) \div 256
    IN  [i \in 1..8 |-> (255 - v[i] + Carry[i + 1]) % 256]

Dbl64(v) ==
    LET Carry[i \in 1..9] ==
            IF i = 9 THEN 0 ELSE (2 * v[i] + Carry[i + 1]) \div 256
    IN  [i \in 1..8 |-> (2 * v[i] + Carry[i + 1]) % 256]

Zero64 == I64Of(0)

(***************************************************************************)
(* Decimal text of integers: strconv.FormatInt / ParseInt / ParseUint,     *)
(* base 10, as the block form uses them.                                   *)
(***************************************************************************)
\* Quotient and remainder of an unsigned 8-byte magnitude by 10.
DivMod10(m) ==
    LET Rem[i \in 0..8] == IF i = 0 THEN 0 ELSE (Rem[i - 1] * 256 + m[i]) % 10
    IN  [q |-> [i \in 1..8 |-> (Rem[i - 1] * 256 + m[i]) \div 10], r |-> Rem[8]]

RECURSIVE DigitsOf(_)
DigitsOf(m) ==
    IF m = Zero64 THEN <<>>
    ELSE Bind(DivMod10(m), LAMBDA d : DigitsOf(d.q) \o <<48 + d.r>>)

\* strconv.FormatInt(v, 10).
FormatInt(i) ==
    Bind(i, LAMBDA v : IF v = Zero64 THEN <<48>>
                       ELSE IF IsNeg64(v)
                       THEN <<45>> \o Bind(Neg64(v), LAMBDA m : DigitsOf(m))
                       ELSE DigitsOf(v))

IsDigit(c) == c >= 48 /\ c <= 57

\* acc * 10 + d modulo 2^64, and the carry out of the top byte.
MulAdd10(acc, d) ==
    LET Carry[i \in 1..9] ==
            IF i = 9 THEN d ELSE (acc[i] * 10 + Carry[i + 1]) \div 256
    IN  [carry |-> Carry[1], v |-> [i \in 1..8 |-> (acc[i] * 10 + Carry[i + 1]) % 256]]

\* The unsigned magnitude of a digit string: [err, v], err on a non-digit,
\* on the empty string and on overflow of 64 bits.
RECURSIVE ParseMag(_, _)
ParseMag(s, acc) ==
    IF s = <<>> THEN [err |-> FALSE, v |-> acc]
    ELSE IF ~IsDigit(Head(s)) THEN [err |-> TRUE, v |-> Zero64]
    ELSE Bind(MulAdd10(acc, Head(s) - 48),
              LAMBDA n : IF n.carry # 0 THEN [err |-> TRUE, v |-> Zero64]
                         ELSE ParseMag(Tail(s), n.v))

\* 2^(bits-1) as an unsigned magnitude.
Cutoff(bits) == [i \in 1..8 |-> IF i = 9 - (bits \div 8) THEN 128 ELSE 0]

\* strconv.ParseInt(s, 10, bits): [err, v] with v an int64.
ParseInt(s, bits) ==
    IF s = <<>> THEN [err |-> TRUE, v |-> Zero64]
    ELSE LET neg == Head(s) = 45
             body == IF Head(s) = 45 \/ Head(s) = 43 THEN Tail(s) ELSE s
         IN  Bind(IF body = <<>> THEN [err |-> TRUE, v |-> Zero64] ELSE ParseMag(body, Zero64),
                  LAMBDA un :
                     IF un.err THEN [err |-> TRUE, v |-> Zero64]
                     ELSE IF ~neg /\ ~LexLess(un.v, Cutoff(bits))
                     THEN [err |-> TRUE, v |-> Zero64]
                     ELSE IF neg /\ LexLess(Cutoff(bits), un.v)
                     THEN [err |-> TRUE, v |-> Zero64]
                     ELSE [err |-> FALSE, v |-> IF neg THEN Neg64(un.v) ELSE un.v])

\* strconv.ParseUint(s, 10, 8): [err, v] with v in 0..255.
ParseUint8(s) ==
    IF s = <<>> THEN [err |-> TRUE, v |-> 0]
    ELSE Bind(ParseMag(s, Zero64),
              LAMBDA un : IF un.err \/ LexLess(I64Of(255), un.v) THEN [err |-> TRUE, v |-> 0]
                          ELSE [err |-> FALSE, v |-> un.v[8]])

(***************************************************************************)
(* The integer-width selector (marker.go).                                 *)
(***************************************************************************)
\* smallestIntMarker with the int8 test ahead of the uint8 test.
smallestIntMarkerSignedFirst(v) ==
    IF Le64(v, I64Of(127)) /\ Le64(I64Of(-128), v) THEN Int8Marker
    ELSE IF Le64(Zero64, v) /\ Le64(v, I64Of(255)) THEN UInt8Marker
    ELSE IF Le64(v, I64Of(32767)) /\ Le64(I64Of(-32768), v) THEN Int16Marker
    ELSE IF Le64(v, I64Of(2147483647)) /\ Le64(I64Of(-2147483647 - 1), v) THEN Int32Marker
    ELSE Int64Marker

smallestIntMarker(v) ==
    IF Le64(Zero64, v) /\ Le64(v, I64Of(255)) THEN UInt8Marker
    ELSE IF Le64(v, I64Of(127)) /\ Le64(I64Of(-128), v) THEN Int8Marker
    ELSE IF Le64(v, I64Of(32767)) /\ Le64(I64Of(-32768), v) THEN Int16Marker
    ELSE IF Le64(v, I64Of(2147483647)) /\ Le64(I64Of(-2147483647 - 1), v) THEN Int32Marker
    ELSE Int64Marker

(***************************************************************************)
(* The token writers (binaryWriter and blockWriter): every operator        *)
(* returns the bytes the call appends; block = TRUE is the blockWriter.    *)
(***************************************************************************)
writeBlocked(s) == <<91>> \o s \o <<93>>

writeMarker(block, m) == IF block THEN <<91, m, 93>> ELSE <<m>>

writeUInt8(block, v) == IF block THEN writeBlocked(FormatInt(I64Of(v))) ELSE <<v>>

writeInt8(block, v) == IF block THEN writeBlocked(FormatInt(I64Of(v))) ELSE <<v % 256>>

writeInt16(block, v) ==
    IF block THEN writeBlocked(FormatInt(I64Of(v))) ELSE SubSeq(I64Of(v), 7, 8)

writeInt32(block, v) ==
    IF block THEN writeBlocked(FormatInt(I64Of(v))) ELSE SubSeq(I64Of(v), 5, 8)

writeInt64(block, v) == IF block THEN writeBlocked(FormatInt(v)) ELSE v

\* writeInt always writes the marker of the smallest type, then the payload.
writeInt(block, i) ==
    Bind(i, LAMBDA v : Bind(smallestIntMarker(v), LAMBDA m :
        writeMarker(block, m) \o
        (CASE m = UInt8Marker -> writeUInt8(block, v[8])
           [] m = Int8Marker -> writeInt8(block, TruncS(v, 1))
           [] m = Int16Marker -> writeInt16(block, TruncS(v, 2))
           [] m = Int32Marker -> writeInt32(block, TruncS(v, 4))
           [] OTHER -> writeInt64(block, v))))

\* writeString with the length written as a bare uint8, without its marker.
writeStringBareLength(block, s) ==
    writeUInt8(block, Len(s)) \o
    (IF Len(s) > 0 THEN (IF block THEN writeBlocked(s) ELSE s) ELSE <<>>)

\* writeString: the length prefix, then the bytes (nothing for "").
writeString(block, s) ==
    writeInt(block, I64Of(Len(s))) \o
    (IF Len(s) > 0 THEN (IF block THEN writeBlocked(s) ELSE s) ELSE <<>>)

(***************************************************************************)
(* The byte source: a bufio.Reader over a bytes.Reader.  src is what the   *)
(* source still holds, buf what the buffer holds unread; split lists the   *)
(* sizes of the next reads of a source that returns fewer bytes than asked *)
(* for (<<>>: the source returns all it is asked for and has, as a         *)
(* bytes.Reader does).  The block reader                                   *)
(* only reads up to a delimiter, which does not depend on how the buffer   *)
(* is filled: its stream is src alone and next is its one-block            *)
(* look-ahead (<<>>: none).                                                *)
(***************************************************************************)
defaultBufSize == 4096

Min(a, b) == IF a < b THEN a ELSE b

Drop(s, n) == SubSeq(s, n + 1, Len(s))

NewReader(block, data) ==
    [block |-> block, src |-> data, buf |-> <<>>, next |-> <<>>, split |-> <<>>]

\* bufio.NewReader over a source whose next reads return split[1],
\* split[2], ... bytes at most.
NewReaderOver(block, data, split) == [NewReader(block, data) EXCEPT !.split = split]

\* One Read of the source with room for n bytes: what it returns and the
\* source after it.
SourceRead(r, n) ==
    LET k == Min(Min(n, Len(r.src)), IF r.split = <<>> THEN n ELSE Head(r.split))
    IN  [v |-> SubSeq(r.src, 1, k),
         r |-> [r EXCEPT !.src = Drop(r.src, k),
                         !.split = IF r.split = <<>> THEN <<>> ELSE Tail(r.split)]]

\* One read of the source into the empty buffer.
Fill(r) ==
    IF r.buf # <<>> THEN r
    ELSE Bind(SourceRead(r, defaultBufSize), LAMBDA s : [s.r EXCEPT !.buf = s.v])

\* bufio.Reader.ReadByte.
ReadByte(r) ==
    Bind(Fill(r),
         LAMBDA f : IF f.buf = <<>> THEN [err |-> TRUE, v |-> 0, r |-> f]
                    ELSE [err |-> FALSE, v |-> Head(f.buf), r |-> [f EXCEPT !.buf = Tail(f.buf)]])

\* bufio.Reader.Peek(1).
Peek1(r) ==
    Bind(Fill(r),
         LAMBDA f : IF f.buf = <<>> THEN [err |-> TRUE, v |-> 0, r |-> f]
                    ELSE [err |-> FALSE, v |-> Head(f.buf), r |-> f])

\* bufio.Reader.Read(p) with len(p) = n: v is what was read, which may be
\* shorter than n.
Read(r, n) ==
    IF n = 0 THEN [err |-> FALSE, v |-> <<>>, r |-> r]
    ELSE IF r.buf = <<>> /\ n >= defaultBufSize
    THEN Bind(SourceRead(r, n), LAMBDA s : [err |-> s.v = <<>>, v |-> s.v, r |-> s.r])
    ELSE Bind(Fill(r),
              LAMBDA f : [err |-> Min(n, Len(f.buf)) = 0,
                          v |-> SubSeq(f.buf, 1, Min(n, Len(f.buf))),
                          r |-> [f EXCEPT !.buf = Drop(f.buf, Min(n, Len(f.buf)))]])

\* The index of the first c in s, 0 when there is none.
IndexOf(s, c) ==
    IF \E i \in 1..Len(s) : s[i] = c
    THEN CHOOSE i \in 1..Len(s) : s[i] = c /\ \A j \in 1..(i - 1) : s[j] # c
    ELSE 0

\* bufio.Reader.ReadBytes(delim) / ReadString(delim): through the first
\* delim; at the end of the source without one, everything is consumed and
\* the call fails.
ReadThrough(r, delim) ==
    Bind(IndexOf(r.src, delim),
         LAMBDA i : IF i = 0 THEN [err |-> TRUE, v |-> r.src, r |-> [r EXCEPT !.src = <<>>]]
                    ELSE [err |-> FALSE, v |-> SubSeq(r.src, 1, i),
                          r |-> [r EXCEPT !.src = Drop(r.src, i)]])

(***************************************************************************)
(* The block reader's blocks (reader.go).                                  *)
(***************************************************************************)
readBlock(r) ==
    Bind(ReadThrough(r, 91),
         LAMBDA a :
            IF a.err THEN [err |-> TRUE, v |-> <<>>, r |-> a.r, e |-> "failed to read block start"]
            ELSE Bind(ReadThrough(a.r, 93),
                      LAMBDA b : IF b.err THEN [err |-> TRUE, v |-> <<>>, r |-> b.r,
                                                e |-> "failed to read through block end"]
                                 ELSE [err |-> FALSE, v |-> SubSeq(b.v, 1, Len(b.v) - 1),
                                       r |-> b.r]))

nextBlock(r) ==
    IF r.next # <<>> THEN [err |-> FALSE, v |-> r.next, r |-> [r EXCEPT !.next = <<>>]]
    ELSE readBlock(r)

peekBlock(r) ==
    IF r.next # <<>> THEN [err |-> FALSE, v |-> r.next, r |-> r]
    ELSE Bind(readBlock(r),
              LAMBDA b : IF b.err THEN b
                         ELSE IF b.v = <<>>
                         THEN [err |-> TRUE, v |-> <<>>, r |-> b.r, e |-> "empty block"]
                         ELSE [err |-> FALSE, v |-> b.v, r |-> [b.r EXCEPT !.next = b.v]])

(***************************************************************************)
(* The reader interface, binaryReader and blockReader by r.block.  Every   *)
(* operator returns [err, v, r]: whether it failed, the value, the reader  *)
(* after the call; a failed peek also returns e, the error's text.         *)
(***************************************************************************)
Fail(r) == [err |-> TRUE, v |-> 0, r |-> r]

readMarker(r) ==
    IF r.block
    THEN Bind(nextBlock(r),
              LAMBDA s : IF s.err \/ Len(s.v) # 1 THEN Fail(s.r)
                         ELSE [err |-> FALSE, v |-> s.v[1], r |-> s.r])
    ELSE ReadByte(r)

peekMarker(r) ==
    IF r.block
    THEN Bind(peekBlock(r),
              LAMBDA s : IF s.err THEN [err |-> TRUE, v |-> 0, r |-> s.r, e |-> s.e]
                         ELSE IF Len(s.v) > 1
                         THEN [err |-> TRUE, v |-> 0, r |-> s.r,
                               e |-> "expected single byte marker"]
                         ELSE [err |-> FALSE, v |-> s.v[1], r |-> s.r])
    ELSE Bind(Peek1(r),
              LAMBDA b : IF b.err
                         THEN [err |-> TRUE, v |-> 0, r |-> b.r, e |-> "failed to peek marker"]
                         ELSE b)

readUInt8(r) ==
    IF r.block
    THEN Bind(nextBlock(r),
              LAMBDA s : Bind(ParseUint8(s.v),
                              LAMBDA p : IF s.err \/ p.err THEN Fail(s.r)
                                         ELSE [err |-> FALSE, v |-> p.v, r |-> s.r]))
    ELSE ReadByte(r)

\* readBlockedInt(bitSize): the next block parsed as a decimal int64.
readBlockedInt(r, bitSize) ==
    Bind(nextBlock(r),
         LAMBDA s : Bind(ParseInt(s.v, bitSize),
                         LAMBDA p : IF s.err \/ p.err THEN [err |-> TRUE, v |-> Zero64, r |-> s.r]
                                    ELSE [err |-> FALSE, v |-> p.v, r |-> s.r]))

\* readBuf(len): one Read of len bytes, failing when fewer arrive.
readBuf(r, len) ==
    Bind(Read(r, len),
         LAMBDA b : IF b.err \/ Len(b.v) # len THEN [err |-> TRUE, v |-> <<>>, r |-> b.r] ELSE b)

readInt8(r) ==
    IF r.block
    THEN Bind(readBlockedInt(r, 8), LAMBDA i : [err |-> i.err, v |-> TruncS(i.v, 1), r |-> i.r])
    ELSE Bind(ReadByte(r), LAMBDA b : [b EXCEPT !.v = IF b.v >= 128 THEN b.v - 256 ELSE b.v])

readInt16(r) ==
    IF r.block
    THEN Bind(readBlockedInt(r, 16), LAMBDA i : [err |-> i.err, v |-> TruncS(i.v, 2), r |-> i.r])
    ELSE Bind(readBuf(r, 2),
              LAMBDA b : IF b.err THEN Fail(b.r)
                         ELSE [err |-> FALSE, v |-> TruncS(<<0, 0, 0, 0, 0, 0>> \o b.v, 2),
                               r |-> b.r])

readInt32(r) ==
    IF r.block
    THEN Bind(readBlockedInt(r, 32), LAMBDA i : [err |-> i.err, v |-> TruncS(i.v, 4), r |-> i.r])
    ELSE Bind(readBuf(r, 4),
              LAMBDA b : IF b.err THEN Fail(b.r)
                         ELSE [err |-> FALSE, v |-> TruncS(<<0, 0, 0, 0>> \o b.v, 4), r |-> b.r])

readInt64(r) ==
    IF r.block THEN readBlockedInt(r, 64)
    ELSE Bind(readBuf(r, 8),
              LAMBDA b : IF b.err THEN [err |-> TRUE, v |-> Zero64, r |-> b.r] ELSE b)

\* A sized integer read, widened to the Go int (64 bits).
Widen(x) == Bind(x, LAMBDA i : [i EXCEPT !.v = I64Of(i.v)])

\* readInt reads an integer of unspecified size with its marker; v is the
\* Go int (64 bits).
readInt(r) ==
    Bind(readMarker(r),
         LAMBDA m :
            IF m.err THEN [err |-> TRUE, v |-> Zero64, r |-> m.r]
            ELSE CASE m.v = UInt8Marker -> Widen(readUInt8(m.r))
                   [] m.v = Int8Marker -> Widen(readInt8(m.r))
                   [] m.v = Int16Marker -> Widen(readInt16(m.r))
                   [] m.v = Int32Marker -> Widen(readInt32(m.r))
                   [] m.v = Int64Marker -> readInt64(m.r)
                   [] OTHER -> [err |-> TRUE, v |-> Zero64, r |-> m.r])

\* The bytes of a string after its length prefix l was read.
StringBody(l) ==
    IF l.r.block
    THEN Bind(nextBlock(l.r),
              LAMBDA s : IF s.err \/ Len(s.v) # ToInt(l.v)
                         THEN [err |-> TRUE, v |-> <<>>, r |-> s.r]
                         ELSE s)
    ELSE Bind(Read(l.r, ToInt(l.v)),
              LAMBDA b : IF b.err \/ Len(b.v) # ToInt(l.v)
                         THEN [err |-> TRUE, v |-> <<>>, r |-> b.r]
                         ELSE b)

\* readString(max): the length prefix, then the bytes.  The binary reader
\* accepts a length 0, the block reader requires a length >= 1.
readString(r, max) ==
    Bind(readInt(r),
         LAMBDA l :
            IF l.err THEN [err |-> TRUE, v |-> <<>>, r |-> l.r]
            ELSE IF Less64(l.v, I64Of(IF r.block THEN 1 ELSE 0))
            THEN [err |-> TRUE, v |-> <<>>, r |-> l.r]
            ELSE IF Less64(I64Of(max), l.v) THEN [err |-> TRUE, v |-> <<>>, r |-> l.r]
            ELSE StringBody(l))

readChar(r) ==
    IF r.block
    THEN Bind(nextBlock(r),
              LAMBDA s : IF s.err \/ Len(s.v) # 1 THEN Fail(s.r)
                         ELSE IF s.v[1] > 127 THEN Fail(s.r)
                         ELSE [err |-> FALSE, v |-> s.v[1], r |-> s.r])
    ELSE Bind(ReadByte(r), LAMBDA b : IF b.err \/ b.v > 127 THEN Fail(b.r) ELSE b)

\* readContainer parses a container's prelude: v is [m, l], the declared
\* type (0: none) and the declared length (-1: none).
NoContainer(r) == [err |-> TRUE, v |-> [m |-> 0, l |-> Zero64], r |-> r]

\* ContainerCount without the test for a negative length.
ContainerCountAnySign(r, t) ==
    Bind(readInt(r),
         LAMBDA l : IF l.err THEN NoContainer(l.r)
                    ELSE [err |-> FALSE, v |-> [m |-> t, l |-> l.v], r |-> l.r])

\* The count of a prelude whose declared type is t (0: none).
ContainerCount(r, t) ==
    Bind(readInt(r),
         LAMBDA l : IF l.err THEN NoContainer(l.r)
                    ELSE IF Less64(l.v, Zero64) THEN NoContainer(l.r)
                    ELSE [err |-> FALSE, v |-> [m |-> t, l |-> l.v], r |-> l.r])

\* After the type marker ($) was read: the element type, then a required #.
ContainerType(r) ==
    Bind(readMarker(r),
         LAMBDA m :
            IF m.err THEN NoContainer(m.r)
            ELSE Bind(readMarker(m.r),
                      LAMBDA c : IF c.err \/ c.v # countMarker THEN NoContainer(c.r)
                                 ELSE ContainerCount(c.r, m.v)))

readContainer(r) ==
    Bind(peekMarker(r),
         LAMBDA p :
            IF p.err THEN NoContainer(p.r)
            ELSE IF p.v = typeMarker
            THEN Bind(readMarker(p.r),
                      LAMBDA d : IF d.err THEN NoContainer(d.r) ELSE ContainerType(d.r))
            ELSE IF p.v = countMarker
            THEN Bind(readMarker(p.r),
                      LAMBDA d : IF d.err THEN NoContainer(d.r) ELSE ContainerCount(d.r, 0))
            ELSE [err |-> FALSE, v |-> [m |-> 0, l |-> I64Of(-1)], r |-> p.r])

(***************************************************************************)
(* Host values.  A value is a record [k, v] of its Go kind k and its       *)
(* payload v; a slice, array or map also carries its element type e, a     *)
(* struct its type t.  A type is a record [k] (plus e for slice, array,    *)
(* map and ptr, n for array, f for struct: the fields in declaration       *)
(* order, each [name, exported, tags, t]).  Strings are byte sequences; a  *)
(* map's payload is a function from its keys to its values.                *)
(***************************************************************************)
SliceOf(e) == [k |-> "slice", e |-> e]
ArrayOf(n, e) == [k |-> "array", n |-> n, e |-> e]
MapOf(e) == [k |-> "map", e |-> e]
StructOf(f) == [k |-> "struct", f |-> f]
Field(name, t) == [name |-> name, exported |-> TRUE, json |-> <<>>, ubjson |-> <<>>, t |-> t]
\* A field with its struct tags (the empty string: the tag is absent).
TaggedField(name, exported, json, ubjson, t) ==
    [name |-> name, exported |-> exported, json |-> json, ubjson |-> ubjson, t |-> t]
\* A type that implements Marshaler and declares the marker m.
CustomOf(m) == [k |-> "custom", m |-> m]

Nil == [k |-> "nil", v |-> 0]
V(k, v) == [k |-> k, v |-> v]
IntVal(n) == [k |-> "int", v |-> I64Of(n)]
Slice(e, v) == [k |-> "slice", e |-> e, v |-> v]
Map(e, v) == [k |-> "map", e |-> e, v |-> v]
Struct(t, v) == [k |-> "struct", t |-> t, v |-> v]

\* The static type of a value (reflect.TypeOf).
TypeOf(v) ==
    CASE v.k \in {"slice", "map", "ptr"} -> [k |-> v.k, e |-> v.e]
      [] v.k = "array" -> ArrayOf(Len(v.v), v.e)
      [] v.k = "struct" -> v.t
      [] v.k = "nil" -> T("any")
      [] OTHER -> T(v.k)

(***************************************************************************)
(* The encoder (encode.go).  A call returns [st, b]: "ok", "err" or        *)
(* "panic", and the bytes written.  block is Encoder.block, ind is         *)
(* Encoder.indent at the call.                                             *)
(***************************************************************************)
Ok(b) == [st |-> "ok", b |-> b]

\* Two writes in a row: the second happens only when the first succeeded.
Then(a, b) ==
    Bind(a, LAMBDA x : IF x.st # "ok" THEN x
                       ELSE Bind(b, LAMBDA y : [st |-> y.st, b |-> x.b \o y.b]))

newLine(block, ind) == IF block THEN <<10>> \o [i \in 1..ind |-> 9] ELSE <<>>

writeType(block, marker) == IF block THEN <<91, marker, 93>> ELSE <<marker>>

blocked(s) == <<91>> \o s \o <<93>>

\* intMarshaler: the sized marshaler of an int, the smallest that holds it.
intMarshaler(v) ==
    IF Le64(Zero64, v) /\ Le64(v, I64Of(255)) THEN V("uint8", v[8])
    ELSE IF Le64(v, I64Of(127)) /\ Le64(I64Of(-128), v) THEN V("int8", TruncS(v, 1))
    ELSE IF Le64(v, I64Of(32767)) /\ Le64(I64Of(-32768), v) THEN V("int16", TruncS(v, 2))
    ELSE IF Le64(v, I64Of(2147483647)) /\ Le64(I64Of(-2147483647 - 1), v)
    THEN V("int32", TruncS(v, 4))
    ELSE V("int64", v)

\* getMarshaler: the marshaler of a value, which may be itself; "panic"
\* for a kind with no encoding scheme (a pointer).
getMarshaler(v) ==
    CASE v.k = "int" -> intMarshaler(v.v)
      [] v.k \in {"nil", "bool", "string", "char", "hpn", "int8", "uint8", "int16",
                  "int32", "int64", "slice", "array", "map", "struct"} -> v
      [] OTHER -> V("panic", 0)

\* The marker a marshaler returns from MarshalUBJSON.
MarshalerMarker(m) ==
    CASE m.k = "nil" -> NullMarker
      [] m.k = "bool" -> IF m.v THEN TrueMarker ELSE FalseMarker
      [] m.k = "int8" -> Int8Marker
      [] m.k = "uint8" -> UInt8Marker
      [] m.k = "int16" -> Int16Marker
      [] m.k = "int32" -> Int32Marker
      [] m.k = "int64" -> Int64Marker
      [] m.k = "string" -> StringMarker
      [] m.k = "char" -> CharMarker
      [] m.k = "hpn" -> HighPrecNumMarker
      [] m.k \in {"slice", "array"} -> ArrayStartMarker
      [] OTHER -> ObjectStartMarker

\* getType: the marker written after `$` for an element type; 0 for the
\* types with no single marker.
getType(t) ==
    CASE t.k = "custom" -> t.m
      [] t.k = "char" -> CharMarker
      [] t.k = "hpn" -> HighPrecNumMarker
      [] t.k = "string" -> StringMarker
      [] t.k = "int8" -> Int8Marker
      [] t.k = "uint8" -> UInt8Marker
      [] t.k = "int16" -> Int16Marker
      [] t.k = "int32" -> Int32Marker
      [] t.k = "int64" -> Int64Marker
      [] t.k = "float32" -> Float32Marker
      [] t.k = "float64" -> Float64Marker
      [] OTHER -> 0

\* The data encoder of the sized integer marshalers: the decimal text in
\* block form, else the big-endian bytes of the type's width.
IntData(block, m) ==
    LET v == IF m.k = "int64" THEN m.v ELSE I64Of(m.v)
        w == CASE m.k \in {"uint8", "int8"} -> 1
               [] m.k = "int16" -> 2
               [] m.k = "int32" -> 4
               [] OTHER -> 8
    IN  IF block THEN blocked(FormatInt(v)) ELSE SubSeq(v, 9 - w, 8)

\* Encoder.EncodeInt: the marker of the smallest type, then the payload.
EncodeInt(block, v) ==
    Bind(intMarshaler(v), LAMBDA m : writeType(block, MarshalerMarker(m)) \o IntData(block, m))

\* The data encoder of stringMarshaler and of HighPrecNumber.
StringData(block, s) ==
    EncodeInt(block, I64Of(Len(s))) \o
    (IF Len(s) > 0 THEN (IF block THEN blocked(s) ELSE s) ELSE <<>>)

\* The keys of a map in the order MapKeys returns them: some order, and
\* its reverse when rev.
RECURSIVE SeqOfKeys(_)
SeqOfKeys(S) ==
    IF S = {} THEN <<>>
    ELSE Bind(CHOOSE y \in S : \A z \in S : z = y \/ LexLess(y \o <<256>>, z \o <<256>>),
              LAMBDA x : <<x>> \o Bind(S \ {x}, LAMBDA R : SeqOfKeys(R)))

Reverse(s) == [i \in 1..Len(s) |-> s[Len(s) + 1 - i]]

MapKeys(m, rev) == IF rev THEN Reverse(SeqOfKeys(DOMAIN m)) ELSE SeqOfKeys(DOMAIN m)

\* No element type: the nil reflect.Type EncodeArray and EncodeObject take.
NoType == T("none")

\* A marshaler whose MarshalUBJSON returns a data encoder; the constant
\* marshalers (null, true, false) return nil.
HasData(m) == m.k \notin {"nil", "bool"}

\* string(c) of a Char, as the block form writes it: the UTF-8 of rune c.
RuneBytes(c) == IF c < 128 THEN <<c>> ELSE <<192 + (c \div 64), 128 + (c % 64)>>

\* The name a struct field is written under: the json tag up to its first
\* comma when the tag is not empty, else the field's name.
FieldKey(f) ==
    IF f.json = <<>> THEN f.name
    ELSE IF IndexOf(f.json, 44) = 0 THEN f.json
    ELSE SubSeq(f.json, 1, IndexOf(f.json, 44) - 1)

RECURSIVE data(_, _, _, _)
RECURSIVE marshal(_, _, _, _)
RECURSIVE EncodeElems(_, _, _, _, _, _)
RECURSIVE EncodeEntries(_, _, _, _, _, _)

\* Encoder.marshal: the marker, then the data when there is any.
marshal(block, ind, rev, m) ==
    IF m.k = "panic" THEN [st |-> "panic", b |-> <<>>]
    ELSE Then(Ok(writeType(block, MarshalerMarker(m))),
              IF HasData(m) THEN data(block, ind, rev, m) ELSE Ok(<<>>))

\* The data encoder alone, as a typed container calls it: calling the nil
\* data encoder of a constant marshaler panics.
DataOnly(block, ind, rev, m) ==
    IF m.k = "panic" \/ ~HasData(m) THEN [st |-> "panic", b |-> <<>>]
    ELSE data(block, ind, rev, m)

\* The element loop with every element marshalled under its own marker.
EncodeElemsMarked(block, ind, rev, typed, elems, i) ==
    IF i > Len(elems) THEN Ok(<<>>)
    ELSE Bind(getMarshaler(elems[i]),
              LAMBDA m :
                 IF m.k = "panic" THEN [st |-> "panic", b |-> <<>>]
                 ELSE Then(Then(Ok(newLine(block, ind)), marshal(block, ind, rev, m)),
                           EncodeElems(block, ind, rev, typed, elems, i + 1)))

\* The element loop of EncodeArray, from element i.
EncodeElems(block, ind, rev, typed, elems, i) ==
    IF i > Len(elems) THEN Ok(<<>>)
    ELSE Bind(getMarshaler(elems[i]),
              LAMBDA m :
                 IF m.k = "panic" THEN [st |-> "panic", b |-> <<>>]
                 ELSE Then(Then(Ok(newLine(block, ind)),
                                IF typed THEN DataOnly(block, ind, rev, m)
                                ELSE marshal(block, ind, rev, m)),
                           EncodeElems(block, ind, rev, typed, elems, i + 1)))

\* Encoder.EncodeArray, called with Encoder.indent = ind.
EncodeArray(block, ind, rev, elemType, count, elems) ==
    Then(Then(Ok((IF elemType # NoType
                  THEN writeType(block, typeMarker) \o writeType(block, getType(elemType))
                  ELSE <<>>) \o
                 (IF count >= 0
                  THEN writeType(block, countMarker) \o EncodeInt(block, I64Of(count))
                  ELSE <<>>)),
              EncodeElems(block, ind + 1, rev, elemType # NoType, elems, 1)),
         Ok((IF count < 0
             THEN newLine(block, ind) \o writeType(block, arrayEndMarker)
             ELSE <<>>) \o newLine(block, ind)))

\* The entry loop of EncodeObject, from entry i; an entry is [Key, Value].
EncodeEntries(block, ind, rev, typed, entries, i) ==
    IF i > Len(entries) THEN Ok(<<>>)
    ELSE Bind(getMarshaler(entries[i].Value),
              LAMBDA m :
                 IF m.k = "panic" THEN [st |-> "panic", b |-> <<>>]
                 ELSE Then(Then(Ok(newLine(block, ind) \o StringData(block, entries[i].Key)),
                                IF typed THEN DataOnly(block, ind, rev, m)
                                ELSE marshal(block, ind, rev, m)),
                           EncodeEntries(block, ind, rev, typed, entries, i + 1)))

\* Encoder.EncodeObject, called with Encoder.indent = ind.
EncodeObject(block, ind, rev, valueType, count, entries) ==
    Then(Then(Ok((IF valueType # NoType
                  THEN writeType(block, typeMarker) \o writeType(block, getType(valueType))
                  ELSE <<>>) \o
                 (IF count >= 0
                  THEN writeType(block, countMarker) \o EncodeInt(block, I64Of(count))
                  ELSE <<>>)),
              EncodeEntries(block, ind + 1, rev, valueType # NoType, entries, 1)),
         Ok((IF count < 0
             THEN newLine(block, ind) \o writeType(block, objectEndMarker)
             ELSE <<>>) \o newLine(block, ind)))

\* ArrayMarshaler: the element type is elided unless it is an interface.
ArrayMarshaler(block, ind, rev, a) ==
    EncodeArray(block, ind, rev, IF a.e.k = "any" THEN NoType ELSE a.e, Len(a.v), a.v)

\* MapMarshaler: the entries in the order of MapKeys.
MapMarshaler(block, ind, rev, m) ==
    Bind(MapKeys(m.v, rev),
         LAMBDA keys :
            Bind([i \in 1..Len(keys) |-> [Key |-> keys[i], Value |-> m.v[keys[i]]]],
                 LAMBDA entries :
                    EncodeObject(block, ind, rev, IF m.e.k = "any" THEN NoType ELSE m.e,
                                 Len(entries), entries)))

\* StructMarshaler: a counted, untyped object of the exported fields.
StructMarshaler(block, ind, rev, s) ==
    Bind(SelectSeq([i \in 1..Len(s.t.f) |-> i], LAMBDA i : s.t.f[i].exported),
         LAMBDA idx :
            Bind([i \in 1..Len(idx) |->
                    [Key |-> FieldKey(s.t.f[idx[i]]), Value |-> s.v[idx[i]]]],
                 LAMBDA entries : EncodeObject(block, ind, rev, NoType, Len(entries), entries)))

\* The data encoder each marshaler returns from MarshalUBJSON.
data(block, ind, rev, m) ==
    CASE m.k \in {"uint8", "int8", "int16", "int32", "int64"} -> Ok(IntData(block, m))
      [] m.k \in {"string", "hpn"} -> Ok(StringData(block, m.v))
      [] m.k = "char" -> Ok(IF block THEN blocked(RuneBytes(m.v)) ELSE <<m.v>>)
      [] m.k \in {"slice", "array"} -> ArrayMarshaler(block, ind, rev, m)
      [] m.k = "map" -> MapMarshaler(block, ind, rev, m)
      [] OTHER -> StructMarshaler(block, ind, rev, m)

\* Encoder.Encode on a fresh encoder, as Marshal and MarshalBlock call it.
Encode(block, rev, v) == Bind(getMarshaler(v), LAMBDA m : marshal(block, 0, rev, m))

(***************************************************************************)
(* The decoder (decode.go).  A decoder is the record                       *)
(*   [r, hook, Type, Len, count, err, why, max]:                           *)
(* the reader it shares with its parent, which readValType it runs ("top"  *)
(* for Decoder.readMarker, "array" for ArrayDecoder.readElemType,          *)
(* "object" for ObjectDecoder.readValType), and for a sub-decoder the      *)
(* declared element type (0 for none), the declared length (-1 for none),  *)
(* the call counter and the deferred error (err: whether one is set, why:  *)
(* its text).  max is the length cap handed to reader.readString.  A       *)
(* decode returns [st, v, d]: "ok", "err" or "panic", the decoded value    *)
(* (meaningful when "ok") and the decoder after the call.  The methods of  *)
(* the sub-decoders return e, the text of their error ("": none).          *)
(***************************************************************************)
DefaultMaxCollectionAlloc == 1048576

NewDecoder(block, image, max) ==
    [r |-> NewReader(block, image), hook |-> "top", Type |-> 0, Len |-> I64Of(-1),
     count |-> 0, err |-> FALSE, why |-> "", max |-> max]

Res(st, v, d) == [st |-> st, v |-> v, d |-> d]

\* A reader call made through a decoder: the decoder sees the reader move.
Lift(d, x) == Bind(x, LAMBDA y : [err |-> y.err, v |-> y.v, d |-> [d EXCEPT !.r = y.r]])

\* A sub-decoder shares its parent's reader.
Join(d, sub) == [d EXCEPT !.r = sub.r]

\* The zero value of a type.
RECURSIVE Zero(_)
Zero(t) ==
    CASE t.k = "any" -> Nil
      [] t.k = "bool" -> V("bool", FALSE)
      [] t.k \in {"int", "int64"} -> V(t.k, Zero64)
      [] t.k \in {"uint8", "int8", "int16", "int32", "char"} -> V(t.k, 0)
      [] t.k \in {"string", "hpn"} -> V(t.k, <<>>)
      [] t.k = "slice" -> Slice(t.e, <<>>)
      [] t.k = "array" -> [k |-> "array", e |-> t.e, v |-> [i \in 1..t.n |-> Zero(t.e)]]
      [] t.k = "map" -> Map(t.e, <<>>)
      [] t.k = "struct" -> Struct(t, [i \in 1..Len(t.f) |-> Zero(t.f[i].t)])
      [] OTHER -> [k |-> "ptr", e |-> t.e, v |-> Nil]

\* A marker read through a decoder, with the text of its error.
LiftMarker(d) ==
    Bind(readMarker(d.r),
         LAMBDA y : [err |-> y.err, v |-> y.v, d |-> [d EXCEPT !.r = y.r],
                     e |-> IF y.err THEN "failed to read marker" ELSE ""])

\* readElemType with the length test off by one (count > Len + 1).
readElemTypeOneMore(a) ==
    LET a1 == [a EXCEPT !.count = @ + 1]
    IN  IF ~IsNeg64(a.Len) /\ Less64(a.Len, I64Of(a.count))
        THEN [err |-> TRUE, v |-> 0, d |-> a1, e |-> "too many"]
        ELSE IF a.Type = 0 THEN LiftMarker(a1)
        ELSE [err |-> FALSE, v |-> a.Type, d |-> a1, e |-> ""]

\* ArrayDecoder.readElemType
readElemType(a) ==
    LET a1 == [a EXCEPT !.count = @ + 1]
    IN  IF ~IsNeg64(a.Len) /\ Less64(a.Len, I64Of(a1.count))
        THEN [err |-> TRUE, v |-> 0, d |-> a1, e |-> "too many"]
        ELSE IF a.Type = 0 THEN LiftMarker(a1)
        ELSE [err |-> FALSE, v |-> a.Type, d |-> a1, e |-> ""]

\* readValType reading a marker from the stream in a typed object too.
ObjectReadValTypeFromStream(o) ==
    LET o1 == [o EXCEPT !.count = @ + 1]
    IN  IF ~IsNeg64(o.Len) /\ Less64(Dbl64(o.Len), I64Of(o1.count))
        THEN [err |-> TRUE, v |-> 0, d |-> o1, e |-> "too many"]
        ELSE IF o1.count % 2 # 0 THEN [err |-> TRUE, v |-> 0, d |-> o1, e |-> "expected key"]
        ELSE LiftMarker(o1)

\* ObjectDecoder.readValType
ObjectReadValType(o) ==
    LET o1 == [o EXCEPT !.count = @ + 1]
    IN  IF ~IsNeg64(o.Len) /\ Less64(Dbl64(o.Len), I64Of(o1.count))
        THEN [err |-> TRUE, v |-> 0, d |-> o1, e |-> "too many"]
        ELSE IF o1.count % 2 # 0 THEN [err |-> TRUE, v |-> 0, d |-> o1, e |-> "expected key"]
        ELSE IF o.Type = 0 THEN LiftMarker(o1)
        ELSE [err |-> FALSE, v |-> o.Type, d |-> o1, e |-> ""]

\* Decoder.readValType, the hook set by NewDecoder, Array and Object.
readValType(d) ==
    CASE d.hook = "array" -> readElemType(d)
      [] d.hook = "object" -> ObjectReadValType(d)
      [] OTHER -> LiftMarker(d)

\* decodeValue without the comparison of the marker read with m.
decodeValueAnyMarker(d, m) ==
    Bind(readValType(d), LAMBDA t : [err |-> t.err, d |-> t.d, e |-> t.e])

\* Decoder.decodeValue up to its call of data: the type marker is read and
\* must be m.  data is called when err is FALSE.
decodeValue(d, m) ==
    Bind(readValType(d),
         LAMBDA t : [err |-> t.err \/ t.v # m, d |-> t.d,
                     e |-> IF t.err THEN t.e ELSE IF t.v # m THEN "wrong type read" ELSE ""])

\* DecodeKey with the checks made before count is advanced.
DecodeKeyCheckFirst(o) ==
    LET o1 == [o EXCEPT !.count = @ + 1]
    IN  IF ~IsNeg64(o.Len) /\ Less64(Dbl64(o.Len), I64Of(o1.count))
        THEN [err |-> TRUE, v |-> <<>>, d |-> o, e |-> "too many"]
        ELSE IF o1.count % 2 = 0 THEN [err |-> TRUE, v |-> <<>>, d |-> o, e |-> "expected value"]
        ELSE Bind(readString(o1.r, o1.max),
                  LAMBDA y : [err |-> y.err, v |-> y.v, d |-> [o1 EXCEPT !.r = y.r],
                              e |-> IF y.err THEN "failed to read string" ELSE ""])

\* ObjectDecoder.DecodeKey
DecodeKey(o) ==
    LET o1 == [o EXCEPT !.count = @ + 1]
    IN  IF ~IsNeg64(o.Len) /\ Less64(Dbl64(o.Len), I64Of(o1.count))
        THEN [err |-> TRUE, v |-> <<>>, d |-> o1, e |-> "too many"]
        ELSE IF o1.count % 2 = 0 THEN [err |-> TRUE, v |-> <<>>, d |-> o1, e |-> "expected value"]
        ELSE Bind(readString(o1.r, o1.max),
                  LAMBDA y : [err |-> y.err, v |-> y.v, d |-> [o1 EXCEPT !.r = y.r],
                              e |-> IF y.err THEN "failed to read string" ELSE ""])

\* The end marker an unbounded container's End reads: [err, d, e].
EndMarker(d, m) ==
    Bind(readMarker(d.r),
         LAMBDA x : [err |-> x.err \/ x.v # m, d |-> [d EXCEPT !.r = x.r],
                     e |-> IF x.err THEN "failed to read marker"
                           ELSE IF x.v # m THEN "expected end marker" ELSE ""])

\* ObjectDecoder.NextEntry: [b, d, e], e the error it recorded.
NextEntry(o) ==
    IF IsNeg64(o.Len)
    THEN Bind(peekMarker(o.r),
              LAMBDA m : IF m.err
                         THEN [b |-> FALSE, e |-> m.e,
                               d |-> [o EXCEPT !.r = m.r, !.err = TRUE, !.why = m.e]]
                         ELSE [b |-> m.v # objectEndMarker, e |-> "",
                               d |-> [o EXCEPT !.r = m.r]])
    ELSE [b |-> Less64(I64Of(o.count), Dbl64(o.Len)), d |-> o, e |-> ""]

\* ObjectDecoder.End: [err, d, e].
ObjectEnd(o) ==
    IF o.err THEN [err |-> TRUE, d |-> o, e |-> o.why]
    ELSE IF o.count % 2 = 1 THEN [err |-> TRUE, d |-> o, e |-> "cannot end an object with a key"]
    ELSE IF IsNeg64(o.Len) THEN EndMarker(o, objectEndMarker)
    ELSE [err |-> Dbl64(o.Len) # I64Of(o.count), d |-> o,
          e |-> IF Dbl64(o.Len) # I64Of(o.count) THEN "len count mismatch" ELSE ""]

\* ArrayDecoder.NextElem: [b, d, e], e the error it recorded.
NextElem(a) ==
    IF IsNeg64(a.Len)
    THEN Bind(peekMarker(a.r),
              LAMBDA m : IF m.err
                         THEN [b |-> FALSE, e |-> m.e,
                               d |-> [a EXCEPT !.r = m.r, !.err = TRUE, !.why = m.e]]
                         ELSE [b |-> m.v # arrayEndMarker, e |-> "",
                               d |-> [a EXCEPT !.r = m.r]])
    ELSE [b |-> Less64(I64Of(a.count), a.Len), d |-> a, e |-> ""]

\* ArrayDecoder.End: [err, d, e].
ArrayEnd(a) ==
    IF a.err THEN [err |-> TRUE, d |-> a, e |-> a.why]
    ELSE IF IsNeg64(a.Len) THEN EndMarker(a, arrayEndMarker)
    ELSE [err |-> a.Len # I64Of(a.count), d |-> a,
          e |-> IF a.Len # I64Of(a.count) THEN "len count mismatch" ELSE ""]

\* Decoder.Array: [err, d], d the sub-decoder.
Array(d) ==
    Bind(readContainer(d.r),
         LAMBDA c : [err |-> c.err,
                     d |-> [r |-> c.r, hook |-> "array", Type |-> c.v.m, Len |-> c.v.l,
                            count |-> 0, err |-> FALSE, why |-> "", max |-> d.max]])

\* Decoder.Object: [err, d], d the sub-decoder.
Object(d) ==
    Bind(readContainer(d.r),
         LAMBDA c : [err |-> c.err,
                     d |-> [r |-> c.r, hook |-> "object", Type |-> c.v.m, Len |-> c.v.l,
                            count |-> 0, err |-> FALSE, why |-> "", max |-> d.max]])

\* elementTypeFor: the type a declared marker is decoded into.
elementTypeFor(m) ==
    CASE m \in {TrueMarker, FalseMarker} -> T("bool")
      [] m = UInt8Marker -> T("uint8")
      [] m = Int8Marker -> T("int8")
      [] m = Int16Marker -> T("int16")
      [] m = Int32Marker -> T("int32")
      [] m = Int64Marker -> T("int64")
      [] m = StringMarker -> T("string")
      [] m = CharMarker -> T("char")
      [] m = HighPrecNumMarker -> T("hpn")
      [] OTHER -> T("any")

\* v \div k for a small positive k, byte by byte.
DivSmall64(v, k) ==
    LET Rem[i \in 0..8] == IF i = 0 THEN 0 ELSE (Rem[i - 1] * 256 + v[i]) % k
    IN  [i \in 1..8 |-> (Rem[i - 1] * 256 + v[i]) \div k]

\* The size in bytes of a value of type t (64-bit platform).
RECURSIVE ElemSize(_)
ElemSize(t) ==
    CASE t.k \in {"bool", "uint8", "int8", "char"} -> 1
      [] t.k = "int16" -> 2
      [] t.k = "int32" -> 4
      [] t.k \in {"int", "int64", "map", "ptr"} -> 8
      [] t.k \in {"any", "string", "hpn"} -> 16
      [] t.k = "slice" -> 24
      [] t.k = "array" -> t.n * ElemSize(t.e)
      [] OTHER -> LET Sum[i \in 0..Len(t.f)] ==
                          IF i = 0 THEN 0 ELSE Sum[i - 1] + ElemSize(t.f[i].t)
                  IN  Sum[Len(t.f)]

\* The largest allocation the runtime accepts: 2^48 bytes.
maxAlloc == <<0, 1, 0, 0, 0, 0, 0, 0>>

\* reflect.MakeSlice(t, n, n) panics ("allocation size out of range") when
\* n elements of type t take more than maxAlloc bytes.
MakeSlicePanics(t, n) ==
    ElemSize(t) > 0 /\ Less64(DivSmall64(maxAlloc, ElemSize(t)), n)

\* The kind a scalar marker is decoded as.
KindOf(m) ==
    CASE m = UInt8Marker -> "uint8"
      [] m = Int8Marker -> "int8"
      [] m = Int16Marker -> "int16"
      [] m = Int32Marker -> "int32"
      [] m = Int64Marker -> "int64"
      [] m = StringMarker -> "string"
      [] m = HighPrecNumMarker -> "hpn"
      [] OTHER -> "char"

\* The marker of a scalar kind.
MarkerOf(k) ==
    CASE k = "uint8" -> UInt8Marker
      [] k = "int8" -> Int8Marker
      [] k = "int16" -> Int16Marker
      [] k = "int32" -> Int32Marker
      [] k = "int64" -> Int64Marker
      [] k = "string" -> StringMarker
      [] k = "hpn" -> HighPrecNumMarker
      [] OTHER -> CharMarker

\* The reader call that reads the payload of kind k.
ReadPayload(d, k) ==
    CASE k = "uint8" -> Lift(d, readUInt8(d.r))
      [] k = "int8" -> Lift(d, readInt8(d.r))
      [] k = "int16" -> Lift(d, readInt16(d.r))
      [] k = "int32" -> Lift(d, readInt32(d.r))
      [] k = "int64" -> Lift(d, readInt64(d.r))
      [] k \in {"string", "hpn"} -> Lift(d, readString(d.r, d.max))
      [] OTHER -> Lift(d, readChar(d.r))

\* A payload read as a decode result.
FromRead(k, x) ==
    Bind(x, LAMBDA y : IF y.err THEN Res("err", Nil, y.d) ELSE Res("ok", V(k, y.v), y.d))

\* DecodeUInt8, DecodeInt8, DecodeInt16, DecodeInt32, DecodeInt64,
\* DecodeHighPrecNumber, DecodeChar, DecodeString: the marker of the kind
\* is asserted, then the payload read.
DecodeScalar(d, k) ==
    Bind(decodeValue(d, MarkerOf(k)),
         LAMBDA c : IF c.err THEN Res("err", Nil, c.d) ELSE FromRead(k, ReadPayload(c.d, k)))

\* Decoder.DecodeBool
DecodeBool(d) ==
    Bind(readValType(d),
         LAMBDA m : IF m.err THEN Res("err", Nil, m.d)
                    ELSE IF m.v = TrueMarker THEN Res("ok", V("bool", TRUE), m.d)
                    ELSE IF m.v = FalseMarker THEN Res("ok", V("bool", FALSE), m.d)
                    ELSE Res("err", Nil, m.d))

\* Decoder.DecodeInt: any of the five integer markers, widened to int.
DecodeInt(d) ==
    Bind(readValType(d),
         LAMBDA m :
            IF m.err THEN Res("err", Nil, m.d)
            ELSE IF m.v \in {UInt8Marker, Int8Marker, Int16Marker, Int32Marker}
            THEN Bind(ReadPayload(m.d, KindOf(m.v)),
                      LAMBDA x : IF x.err THEN Res("err", Nil, x.d)
                                 ELSE Res("ok", V("int", I64Of(x.v)), x.d))
            ELSE IF m.v = Int64Marker THEN FromRead("int", ReadPayload(m.d, "int64"))
            ELSE Res("err", Nil, m.d))

\* reflect.Value.FieldByName: the index of the field named k, 0 for none.
FieldByName(t, k) ==
    IF \E i \in 1..Len(t.f) : t.f[i].name = k
    THEN CHOOSE i \in 1..Len(t.f) : t.f[i].name = k /\ \A j \in 1..(i - 1) : t.f[j].name # k
    ELSE 0

RECURSIVE Decode(_, _, _)
RECURSIVE decodeInterface(_)
RECURSIVE IndexLoop(_, _, _, _, _)
RECURSIVE AppendLoop(_, _, _)
RECURSIVE MapLoop(_, _, _)
RECURSIVE StructLoop(_, _, _)

\* for i := 0; i < n; i++ { ad.Decode(elemPtr); Index(i).Set(elem) }
\* of arrayToArray, arrayToSlice and arrayAsInterface.
IndexLoop(a, et, i, n, acc) ==
    IF ~Less64(I64Of(i), n) THEN Res("ok", acc, a)
    ELSE Bind(Decode(a, et, Zero(et)),
              LAMBDA x : IF x.st # "ok" THEN Res(x.st, acc, x.d)
                         ELSE IndexLoop(x.d, et, i + 1, n, Append(acc, x.v)))

\* for ad.NextElem() { ad.Decode(elemPtr); Append(elem) }
\* of arrayToSlice and arrayAsInterface.
AppendLoop(a, et, acc) ==
    Bind(NextElem(a),
         LAMBDA n : IF ~n.b THEN Res("ok", acc, n.d)
                    ELSE Bind(Decode(n.d, et, Zero(et)),
                              LAMBDA x : IF x.st # "ok" THEN Res(x.st, acc, x.d)
                                         ELSE AppendLoop(x.d, et, Append(acc, x.v))))

\* for o.NextEntry() { o.DecodeKey(); o.Decode(valPtr); SetMapIndex }
\* of objectIntoMap and objectAsInterface.
MapLoop(o, et, acc) ==
    Bind(NextEntry(o),
         LAMBDA n : IF ~n.b THEN Res("ok", acc, n.d)
                    ELSE Bind(DecodeKey(n.d),
                              LAMBDA k : IF k.err THEN Res("err", acc, k.d)
                                         ELSE Bind(Decode(k.d, et, Zero(et)),
                                                   LAMBDA x : IF x.st # "ok"
                                                              THEN Res(x.st, acc, x.d)
                                                              ELSE MapLoop(x.d, et,
                                                                     (k.v :> x.v) @@ acc))))

\* The entry of objectIntoStruct's loop after its key k was decoded: a key
\* that names no field is an error, and taking the address of an
\* unexported field as an interface panics.
StructEntry(k, t, cur) ==
    Bind(FieldByName(t, k.v),
         LAMBDA f : IF f = 0 THEN Res("err", cur, k.d)
                    ELSE IF ~t.f[f].exported THEN Res("panic", cur, k.d)
                    ELSE Bind(Decode(k.d, t.f[f].t, cur[f]),
                              LAMBDA x : IF x.st # "ok" THEN Res(x.st, cur, x.d)
                                         ELSE StructLoop(x.d, t, [cur EXCEPT ![f] = x.v])))

\* for o.NextEntry() { o.DecodeKey(); FieldByName; o.Decode(field) }
\* of objectIntoStruct.
StructLoop(o, t, cur) ==
    Bind(NextEntry(o),
         LAMBDA n : IF ~n.b THEN Res("ok", cur, n.d)
                    ELSE Bind(DecodeKey(n.d),
                              LAMBDA k : IF k.err THEN Res("err", cur, k.d)
                                         ELSE StructEntry(k, t, cur)))

\* The end of a container decode: the loop's result l, then End.
Finish(d, l, e, v, cur) ==
    IF l.st # "ok" THEN Res(l.st, cur, Join(d, l.d))
    ELSE Res(IF e.err THEN "err" ELSE "ok", v, Join(d, e.d))

\* arrayToArray returning after its loop, without the call of End.
arrayToArrayNoEnd(d, t, cur) ==
    Bind(Array(d),
         LAMBDA ad :
            IF ad.err THEN Res("err", cur, Join(d, ad.d))
            ELSE IF Less64(Zero64, ad.d.Len) /\ ad.d.Len # I64Of(t.n)
            THEN Res("err", cur, Join(d, ad.d))
            ELSE Bind(IndexLoop(ad.d, t.e, 0, I64Of(t.n), <<>>),
                      LAMBDA l : Finish(d, l, [err |-> FALSE, d |-> l.d, e |-> ""],
                                        [k |-> "array", e |-> t.e, v |-> l.v], cur)))

\* arrayToArray, after decodeValue has asserted `[`.
arrayToArray(d, t, cur) ==
    Bind(Array(d),
         LAMBDA ad :
            IF ad.err THEN Res("err", cur, Join(d, ad.d))
            ELSE IF Less64(Zero64, ad.d.Len) /\ ad.d.Len # I64Of(t.n)
            THEN Res("err", cur, Join(d, ad.d))
            ELSE Bind(IndexLoop(ad.d, t.e, 0, I64Of(t.n), <<>>),
                      LAMBDA l : Bind(ArrayEnd(l.d),
                          LAMBDA e : Finish(d, l, e,
                                            [k |-> "array", e |-> t.e, v |-> l.v], cur))))

\* arrayToSlice, after decodeValue has asserted `[`.  Without a declared
\* length the appended slice is never stored back: the target is left as
\* the empty slice made before the loop.
arrayToSlice(d, t, cur) ==
    Bind(Array(d),
         LAMBDA ad :
            IF ad.err THEN Res("err", cur, Join(d, ad.d))
            ELSE IF ~IsNeg64(ad.d.Len) /\ MakeSlicePanics(t.e, ad.d.Len)
            THEN Res("panic", cur, Join(d, ad.d))
            ELSE Bind(IF IsNeg64(ad.d.Len) THEN AppendLoop(ad.d, t.e, <<>>)
                      ELSE IndexLoop(ad.d, t.e, 0, ad.d.Len, <<>>),
                      LAMBDA l : Bind(ArrayEnd(l.d),
                          LAMBDA e : Finish(d, l, e,
                                            Slice(t.e, IF IsNeg64(ad.d.Len) THEN <<>> ELSE l.v),
                                            cur))))

\* objectIntoStruct, after decodeValue has asserted `{`.
objectIntoStruct(d, t, cur) ==
    Bind(Object(d),
         LAMBDA o :
            IF o.err THEN Res("err", cur, Join(d, o.d))
            ELSE Bind(StructLoop(o.d, t, cur.v),
                      LAMBDA l : Bind(ObjectEnd(l.d),
                          LAMBDA e : Finish(d, l, e, Struct(t, l.v), cur))))

\* objectIntoMap, after decodeValue has asserted `{`.
objectIntoMap(d, t, cur) ==
    Bind(Object(d),
         LAMBDA o :
            IF o.err THEN Res("err", cur, Join(d, o.d))
            ELSE Bind(MapLoop(o.d, t.e, <<>>),
                      LAMBDA l : Bind(ObjectEnd(l.d),
                          LAMBDA e : Finish(d, l, e, Map(t.e, l.v), cur))))

\* objectAsInterface: a map[string]T, T the declared value type or
\* interface{}.
objectAsInterface(d, o) ==
    Bind(MapLoop(o, elementTypeFor(o.Type), <<>>),
         LAMBDA l : Bind(ObjectEnd(l.d),
             LAMBDA e : Finish(d, l, e, Map(elementTypeFor(o.Type), l.v), Nil)))

\* arrayAsInterface: a []T, T the declared element type or interface{}.
arrayAsInterface(d, a) ==
    IF ~IsNeg64(a.Len) /\ MakeSlicePanics(elementTypeFor(a.Type), a.Len)
    THEN Res("panic", Nil, Join(d, a))
    ELSE Bind(IF IsNeg64(a.Len) THEN AppendLoop(a, elementTypeFor(a.Type), <<>>)
              ELSE IndexLoop(a, elementTypeFor(a.Type), 0, a.Len, <<>>),
              LAMBDA l : Bind(ArrayEnd(l.d),
                  LAMBDA e : Finish(d, l, e, Slice(elementTypeFor(a.Type), l.v), Nil)))

\* The switch of decodeInterface on the marker m that readValType returned.
InterfaceOf(m) ==
    CASE m.v \in {NullMarker, NoOpMarker} -> Res("ok", Nil, m.d)
      [] m.v = TrueMarker -> Res("ok", V("bool", TRUE), m.d)
      [] m.v = FalseMarker -> Res("ok", V("bool", FALSE), m.d)
      [] m.v \in {UInt8Marker, Int8Marker, Int16Marker, Int32Marker, Int64Marker,
                  StringMarker, HighPrecNumMarker, CharMarker} ->
            FromRead(KindOf(m.v), ReadPayload(m.d, KindOf(m.v)))
      [] m.v = ArrayStartMarker ->
            Bind(Array(m.d),
                 LAMBDA a : IF a.err THEN Res("err", Nil, Join(m.d, a.d))
                            ELSE arrayAsInterface(m.d, a.d))
      [] m.v = ObjectStartMarker ->
            Bind(Object(m.d),
                 LAMBDA o : IF o.err THEN Res("err", Nil, Join(m.d, o.d))
                            ELSE objectAsInterface(m.d, o.d))
      [] OTHER -> Res("err", Nil, m.d)

\* Decoder.decodeInterface: the value the next marker announces.
decodeInterface(d) ==
    Bind(readValType(d),
         LAMBDA m : IF m.err THEN Res("err", Nil, m.d) ELSE InterfaceOf(m))

\* Decoder.Decode into a target of type t that holds cur.
Decode(d, t, cur) ==
    CASE t.k = "any" -> decodeInterface(d)
      [] t.k \in {"string", "uint8", "int8", "int16", "int32", "int64", "char", "hpn"} ->
            DecodeScalar(d, t.k)
      [] t.k = "bool" -> DecodeBool(d)
      [] t.k = "int" -> DecodeInt(d)
      [] t.k = "array" ->
            Bind(decodeValue(d, ArrayStartMarker),
                 LAMBDA c : IF c.err THEN Res("err", cur, c.d) ELSE arrayToArray(c.d, t, cur))
      [] t.k = "slice" ->
            Bind(decodeValue(d, ArrayStartMarker),
                 LAMBDA c : IF c.err THEN Res("err", cur, c.d) ELSE arrayToSlice(c.d, t, cur))
      [] t.k = "map" ->
            Bind(decodeValue(d, ObjectStartMarker),
                 LAMBDA c : IF c.err THEN Res("err", cur, c.d) ELSE objectIntoMap(c.d, t, cur))
      [] t.k = "struct" ->
            Bind(decodeValue(d, ObjectStartMarker),
                 LAMBDA c : IF c.err THEN Res("err", cur, c.d)
                            ELSE objectIntoStruct(c.d, t, cur))
      [] OTHER -> Res("err", cur, d)

\* Unmarshal and UnmarshalBlock into a zero target of type t.
Unmarshal(block, image, t, max) ==
    Bind(NewDecoder(block, image, max), LAMBDA d : Decode(d, t, Zero(t)))

\* Marshal and MarshalBlock.
Marshal(block, rev, v) == Encode(block, rev, v)

(***************************************************************************)
(* The state.  pc is the position of the caller; block the form (binary    *)
(* or block notation); val the host value given to the encoder; rev the    *)
(* order MapKeys returns; typ the type of the decode target; max the       *)
(* decoder's length cap; wire the bytes between encoder and decoder; enc   *)
(* the result of the last encoder call; dec the result of the last         *)
(* decoder call; sub the result of the last sub-decoder call; fieldCache   *)
(* the field-descriptor cache with the map objects it has pointed to; thr  *)
(* the locals of the threads inside cachedTypeFields.                      *)
(***************************************************************************)
VARIABLES pc, block, val, rev, typ, max, wire, enc, dec, sub, fieldCache, thr

vars == <<pc, block, val, rev, typ, max, wire, enc, dec, sub, fieldCache, thr>>

\* The cache before any call of cachedTypeFields: value holds no map, the
\* mutex is free, no map object exists, nothing was ever stored.  maps is
\* the heap of map objects by identity; stored lists, in order, the
\* identity and the content of every map handed to value.Store.
NoCache == [value |-> <<>>, mu |-> 0, maps |-> <<>>, stored |-> <<>>]

CacheUnused == fieldCache = NoCache /\ thr = <<>>

NoEnc == [st |-> "none", b |-> <<>>]
NoDec == [st |-> "none", v |-> Nil]
NoSub == [op |-> "none"]

(***************************************************************************)
(* Integers: an int is written by writeInt, by Encoder.EncodeInt or by     *)
(* Marshal, and read back by readInt or by Unmarshal into an int.          *)
(***************************************************************************)
Spread == 2

\* The integers around each boundary between two widths, and the extremes.
IntDomain ==
    {I64Of(b + d) : b \in {-32768, -128, 0, 128, 256, 32768}, d \in (-Spread)..(Spread - 1)}
    \cup {I64Of(2147483647), I64Of(-2147483647 - 1),
          <<0, 0, 0, 0, 128, 0, 0, 0>>, <<255, 255, 255, 255, 127, 255, 255, 255>>,
          <<127, 255, 255, 255, 255, 255, 255, 255>>, <<128, 0, 0, 0, 0, 0, 0, 0>>}

InitInt ==
    /\ pc = "start"
    /\ block \in BOOLEAN
    /\ val \in {V("int", v) : v \in IntDomain}
    /\ rev = FALSE
    /\ typ = T("int")
    /\ max = DefaultMaxCollectionAlloc
    /\ wire = <<>>
    /\ enc = NoEnc
    /\ dec = NoDec
    /\ sub = NoSub
    /\ CacheUnused

\* writeInt of the token writer.
WriteInt ==
    /\ pc = "start"
    /\ wire' = writeInt(block, val.v)
    /\ enc' = Ok(wire')
    /\ pc' = "written"
    /\ UNCHANGED <<block, val, rev, typ, max, dec, sub, fieldCache, thr>>

\* Encoder.EncodeInt
EncodeIntCall ==
    /\ pc = "start"
    /\ wire' = EncodeInt(block, val.v)
    /\ enc' = Ok(wire')
    /\ pc' = "encoded"
    /\ UNCHANGED <<block, val, rev, typ, max, dec, sub, fieldCache, thr>>

\* Marshal / MarshalBlock of the int.
MarshalInt ==
    /\ pc = "start"
    /\ enc' = Marshal(block, rev, val)
    /\ wire' = enc'.b
    /\ pc' = "marshalled"
    /\ UNCHANGED <<block, val, rev, typ, max, dec, sub, fieldCache, thr>>

\* readInt of the token reader on what was written.
ReadInt ==
    /\ pc \in {"written", "encoded"}
    /\ dec' = Bind(NewReader(block, wire),
                   LAMBDA r : Bind(readInt(r),
                       LAMBDA x : IF x.err THEN [st |-> "err", v |-> Nil]
                                  ELSE [st |-> "ok", v |-> V("int", x.v)]))
    /\ pc' = "read"
    /\ UNCHANGED <<block, val, rev, typ, max, wire, enc, sub, fieldCache, thr>>

\* Unmarshal / UnmarshalBlock into an int.
UnmarshalInt ==
    /\ pc = "marshalled"
    /\ dec' = Bind(Unmarshal(block, wire, typ, max), LAMBDA x : [st |-> x.st, v |-> x.v])
    /\ pc' = "decoded"
    /\ UNCHANGED <<block, val, rev, typ, max, wire, enc, sub, fieldCache, thr>>

NextInt == WriteInt \/ EncodeIntCall \/ MarshalInt \/ ReadInt \/ UnmarshalInt

SpecInt == InitInt /\ [][NextInt]_vars

\* The first marker of a wire image: the byte itself, or the byte inside
\* the first block.
FirstMarker(b, w) == IF b THEN w[2] ELSE w[1]

\* The number of payload bytes the binary form carries under a marker.
PayloadWidth(m) ==
    CASE m \in {UInt8Marker, Int8Marker} -> 1
      [] m = Int16Marker -> 2
      [] m = Int32Marker -> 4
      [] OTHER -> 8

\* The marker the width rule assigns to v.
MinimalMarker(v) ==
    IF Le64(Zero64, v) /\ Le64(v, I64Of(255)) THEN UInt8Marker
    ELSE IF Le64(I64Of(-128), v) /\ Less64(v, Zero64) THEN Int8Marker
    ELSE IF Le64(I64Of(-32768), v) /\ Le64(v, I64Of(32767)) THEN Int16Marker
    ELSE IF Fits32(v) THEN Int32Marker
    ELSE Int64Marker

\* C3: an abstract integer is written under U when 0 <= v <= 255, i when
\* -128 <= v < 0, I when otherwise in [-32768, 32767], l when otherwise in
\* [-2^31, 2^31 - 1] and L otherwise, by writeInt, EncodeInt and Marshal
\* alike; the binary payload has the marker's width; and what was written
\* reads back as v.
C3_IntMinimisation ==
    /\ pc # "start" =>
          /\ FirstMarker(block, wire) = MinimalMarker(val.v)
          /\ ~block => Len(wire) = 1 + PayloadWidth(MinimalMarker(val.v))
    /\ pc \in {"read", "decoded"} => dec = [st |-> "ok", v |-> val]

\* C3 witness: 127 was written under U and read back.
C3_Witness ==
    /\ pc \in {"read", "decoded"}
    /\ val.v = I64Of(127)
    /\ FirstMarker(block, wire) = UInt8Marker
    /\ dec.st = "ok"

(***************************************************************************)
(* The codec: a host value is marshalled, and what was written is          *)
(* unmarshalled into a zero target of the value's type; or a map is        *)
(* written by a marshaler that calls Encoder.EncodeObject itself, and the  *)
(* object is read back entry by entry through Decoder.Object.              *)
(***************************************************************************)
MaxLen == 2

Letters == {97, 98}

Strings == UNION {[1..n -> Letters] : n \in 0..MaxLen}

Keys == {<<>>, <<97>>, <<98>>}

\* The values of each element type that the universe holds.
ScalarsOf(t) ==
    CASE t.k = "uint8" -> {V("uint8", 0), V("uint8", 200)}
      [] t.k = "int8" -> {V("int8", -1), V("int8", 5)}
      [] t.k = "int16" -> {V("int16", -300)}
      [] t.k = "int32" -> {V("int32", 70000)}
      [] t.k = "int64" -> {V("int64", <<0, 0, 0, 1, 0, 0, 0, 0>>)}
      [] t.k = "int" -> {IntVal(1), IntVal(-129)}
      [] t.k = "bool" -> {V("bool", TRUE), V("bool", FALSE)}
      [] t.k = "string" -> {V("string", <<>>), V("string", <<97>>)}
      [] t.k = "hpn" -> {V("hpn", <<>>), V("hpn", <<49>>)}
      [] t.k = "char" -> {V("char", 97)}
      [] OTHER -> {Nil, V("bool", TRUE), V("uint8", 7), V("string", <<98>>)}

ElemTypes ==
    {T("uint8"), T("int8"), T("int16"), T("int32"), T("int64"), T("int"), T("bool"),
     T("string"), T("hpn"), T("char"), T("any")}

Seqs(t) == UNION {[1..n -> ScalarsOf(t)] : n \in 0..MaxLen}

Pair == StructOf(<<Field(<<65>>, T("int8")), Field(<<66>>, T("string"))>>)

\* "test" as a byte slice, and some nestings.
TestBytes == Slice(T("uint8"), <<V("uint8", 116), V("uint8", 101), V("uint8", 115),
                                 V("uint8", 116)>>)

Nestings ==
    {Slice(T("any"), <<Slice(T("uint8"), <<V("uint8", 1)>>), Map(T("any"), <<>>)>>),
     Slice(SliceOf(T("uint8")), <<Slice(T("uint8"), <<V("uint8", 1)>>)>>),
     Map(T("any"), (<<97>> :> Slice(T("any"), <<Nil>>))),
     Map(Pair, (<<97>> :> Struct(Pair, <<V("int8", 5), V("string", <<97>>)>>))),
     [k |-> "array", e |-> T("int8"), v |-> <<V("int8", 5), V("int8", -1)>>]}

Values ==
    {Nil} \cup UNION {ScalarsOf(t) : t \in ElemTypes}
    \cup {V("string", x) : x \in Strings}
    \cup UNION {{Slice(t, x) : x \in Seqs(t)} : t \in ElemTypes}
    \cup {Struct(Pair, <<a, b>>) : a \in ScalarsOf(T("int8")), b \in ScalarsOf(T("string"))}
    \cup UNION {{Map(t, f) : f \in UNION {[K -> ScalarsOf(t)] :
                                      K \in {X \in SUBSET Keys : Cardinality(X) <= MaxLen}}} :
                t \in {T("int8"), T("string"), T("any")}}
    \cup Nestings \cup {TestBytes}

Init ==
    /\ pc = "start"
    /\ block \in BOOLEAN
    /\ val \in Values
    /\ rev \in IF val.k = "map" /\ Cardinality(DOMAIN val.v) > 1 THEN BOOLEAN ELSE {FALSE}
    /\ typ = TypeOf(val)
    /\ max = DefaultMaxCollectionAlloc
    /\ wire = <<>>
    /\ enc = NoEnc
    /\ dec = NoDec
    /\ sub = NoSub
    /\ CacheUnused

\* Marshal / MarshalBlock of val.
MarshalCall ==
    /\ pc = "start"
    /\ enc' = Marshal(block, rev, val)
    /\ wire' = enc'.b
    /\ pc' = "marshalled"
    /\ UNCHANGED <<block, val, rev, typ, max, dec, sub, fieldCache, thr>>

\* Unmarshal / UnmarshalBlock of what Marshal returned into a target of
\* val's type.  Marshal returns no bytes when it fails.
UnmarshalCall ==
    /\ pc = "marshalled"
    /\ enc.st = "ok"
    /\ dec' = Bind(Unmarshal(block, wire, typ, max), LAMBDA x : [st |-> x.st, v |-> x.v])
    /\ pc' = "decoded"
    /\ UNCHANGED <<block, val, rev, typ, max, wire, enc, sub, fieldCache, thr>>

\* A marshaler of the map val that writes `{` and calls
\* Encoder.EncodeObject itself, counted or not.
EncodeObjectCall ==
    /\ pc = "start"
    /\ val.k = "map"
    /\ \E counted \in BOOLEAN :
       \E keys \in {MapKeys(val.v, rev)} :
       \E entries \in {[i \in 1..Len(keys) |-> [Key |-> keys[i], Value |-> val.v[keys[i]]]]} :
          enc' = Then(Ok(writeType(block, ObjectStartMarker)),
                      EncodeObject(block, 0, rev, IF val.e.k = "any" THEN NoType ELSE val.e,
                                   IF counted THEN Len(entries) ELSE -1, entries))
    /\ wire' = enc'.b
    /\ pc' = "object written"
    /\ UNCHANGED <<block, val, rev, typ, max, dec, sub, fieldCache, thr>>

\* decodeValue(`{`) and Decoder.Object on what was written.
OpenObject ==
    /\ pc \in {"marshalled", "object written"}
    /\ enc.st = "ok"
    /\ val.k \in {"map", "struct"}
    /\ \E d \in {NewDecoder(block, wire, max)} :
       \E c \in {decodeValue(d, ObjectStartMarker)} :
       \E o \in {Object(c.d)} :
          sub' = [op |-> "Object", err |-> c.err \/ o.err, d |-> o.d, keys |-> <<>>]
    /\ pc' = "object open"
    /\ UNCHANGED <<block, val, rev, typ, max, wire, enc, dec, fieldCache, thr>>

\* ObjectDecoder.DecodeKey on the open object.
DecodeKeyCall ==
    /\ pc = "object open"
    /\ ~sub.err
    /\ sub.d.count % 2 = 0
    /\ \E n \in {NextEntry(sub.d)} :
          /\ n.b
          /\ \E k \in {DecodeKey(n.d)} :
                sub' = [op |-> "DecodeKey", err |-> k.err, d |-> k.d,
                        keys |-> IF k.err THEN sub.keys ELSE Append(sub.keys, k.v)]
    /\ UNCHANGED <<pc, block, val, rev, typ, max, wire, enc, dec, fieldCache, thr>>

\* ObjectDecoder.Decode of the entry's value, into the map's value type or
\* the field's type.
DecodeEntryValue ==
    /\ pc = "object open"
    /\ ~sub.err
    /\ sub.d.count % 2 = 1
    /\ \E k \in {sub.keys[Len(sub.keys)]} :
       \E t \in {IF val.k = "map" THEN val.e
                  ELSE IF FieldByName(val.t, k) = 0 THEN T("any")
                  ELSE val.t.f[FieldByName(val.t, k)].t} :
       \E x \in {Decode(sub.d, t, Zero(t))} :
          sub' = [op |-> "Decode", err |-> x.st # "ok", d |-> x.d, keys |-> sub.keys]
    /\ UNCHANGED <<pc, block, val, rev, typ, max, wire, enc, dec, fieldCache, thr>>

Next ==
    \/ MarshalCall
    \/ UnmarshalCall
    \/ EncodeObjectCall
    \/ OpenObject
    \/ DecodeKeyCall
    \/ DecodeEntryValue

Spec == Init /\ [][Next]_vars

\* C1: in binary form, Marshal of every value of the universe succeeds,
\* and Unmarshal of the bytes into a target of the value's type succeeds
\* and leaves the target equal to the value.
C1_BinaryRoundTrip ==
    ~block => /\ pc = "marshalled" => enc.st = "ok"
              /\ pc = "decoded" => dec = [st |-> "ok", v |-> val]

\* C2: in block form, MarshalBlock of every value of the universe (the
\* empty string, the empty high-precision number and the containers and
\* records that hold them included) succeeds, and UnmarshalBlock of the
\* text into a target of the value's type succeeds and leaves the target
\* equal to the value.
C2_BlockRoundTrip ==
    block => /\ pc = "marshalled" => enc.st = "ok"
             /\ pc = "decoded" => dec = [st |-> "ok", v |-> val]

\* The block form's layout bytes (newline, tab) removed.
Strip(w) == SelectSeq(w, LAMBDA c : c \notin {9, 10})

\* The element types with one fixed marker.
FixedMarkerKinds == {"uint8", "int8", "int16", "int32", "int64", "string", "hpn", "char"}

\* The bytes of one marker token.
TokenLen(b) == IF b THEN 3 ELSE 1

\* The payload of a scalar: its own encoding without the marker token.
PayloadOf(b, e) ==
    Bind(Strip(Marshal(b, FALSE, e).b), LAMBDA w : SubSeq(w, TokenLen(b) + 1, Len(w)))

RECURSIVE Payloads(_, _, _)
Payloads(b, elems, i) ==
    IF i > Len(elems) THEN <<>> ELSE PayloadOf(b, elems[i]) \o Payloads(b, elems, i + 1)

WrittenKeys ==
    IF val.k = "map" THEN MapKeys(val.v, rev)
    ELSE [i \in 1..Len(val.t.f) |-> FieldKey(val.t.f[i])]

\* What a reader has not consumed yet.
Rest(r) == (IF r.next # <<>> THEN writeBlocked(r.next) ELSE <<>>) \o Strip(r.buf \o r.src)

IsPrefix(a, b) == Len(a) <= Len(b) /\ SubSeq(b, 1, Len(a)) = a

\* C10: in an object, typed or untyped, counted or unbounded, every key
\* stands on the wire as its length token followed by its raw bytes with
\* no S marker before it, and DecodeKey on that form returns the key.
C10_KeyDiscipline ==
    /\ (pc = "object open" /\ sub.op # "DecodeKey" /\ ~sub.err /\ sub.d.count % 2 = 0
           /\ Len(sub.keys) < Len(WrittenKeys))
          => IsPrefix(writeString(block, WrittenKeys[Len(sub.keys) + 1]), Rest(sub.d.r))
    /\ (pc = "object open" /\ sub.op = "DecodeKey")
          => (~sub.err /\ IsPrefix(sub.keys, WrittenKeys))

(***************************************************************************)
(* The decoder on given input.  An input is a list of tokens, written by   *)
(* the token writers in the form under test, or raw bytes; val describes   *)
(* it: its family, its shape within the family, the container marker c it  *)
(* opens with (0 for none), the element type t and the count n its prelude *)
(* declares, and the tokens.  The input is unmarshalled into a target of   *)
(* type typ, and a value that comes back is marshalled again; or its       *)
(* container is opened through Decoder.Array / Decoder.Object.             *)
(***************************************************************************)
MaxCount == 2

FuzzLen == 3

TMarker(m) == <<"marker", m>>
TInt(n) == <<"int", I64Of(n)>>
TInt64(v) == <<"int64", v>>
TUInt8(v) == <<"uint8", v>>
TInt8(v) == <<"int8", v>>
TString(x) == <<"string", x>>
TRaw(x) == <<"raw", x>>

\* One token as the writer of the form writes it.
RenderToken(b, k) ==
    CASE k[1] = "marker" -> writeMarker(b, k[2])
      [] k[1] = "int" -> writeInt(b, k[2])
      [] k[1] = "int64" -> writeMarker(b, Int64Marker) \o writeInt64(b, k[2])
      [] k[1] = "uint8" -> writeUInt8(b, k[2])
      [] k[1] = "int8" -> writeInt8(b, k[2])
      [] k[1] = "string" -> writeString(b, k[2])
      [] OTHER -> k[2]

RECURSIVE Render(_, _)
Render(b, toks) ==
    IF toks = <<>> THEN <<>> ELSE RenderToken(b, Head(toks)) \o Render(b, Tail(toks))

In(fam, shape, c, t, n, toks) ==
    [fam |-> fam, shape |-> shape, c |-> c, t |-> t, n |-> n, toks |-> toks]

\* The marker that closes a container opened with c.
Closer(c) == IF c = ArrayStartMarker THEN arrayEndMarker ELSE objectEndMarker

Containers == {ArrayStartMarker, ObjectStartMarker}

\* n copies of x, one after the other.
RECURSIVE Repeat(_, _)
Repeat(n, x) == IF n = 0 THEN <<>> ELSE x \o Repeat(n - 1, x)

\* The tokens of entries i..n of an object whose keys are "a", "b", ..
\* and whose values are the tokens val.
RECURSIVE Entries(_, _, _)
Entries(i, n, value) ==
    IF i > n THEN <<>> ELSE <<TString(<<96 + i>>)>> \o value \o Entries(i + 1, n, value)

(* Objects decoded into the record struct{ A int8 }: the entry A = 8 and   *)
(* an entry b the record has no field for, in either order, counted or not.*)
RecA == StructOf(<<Field(<<65>>, T("int8"))>>)

KnownEntry == <<TString(<<65>>), TMarker(Int8Marker), TInt8(8)>>

UnknownValues ==
    {<<TMarker(Int8Marker), TInt8(5)>>,
     <<TMarker(StringMarker), TString(<<120>>)>>,
     <<TMarker(ArrayStartMarker), TMarker(countMarker), TInt(1), TMarker(NullMarker)>>}

ObjectOf(counted, n, entries) ==
    <<TMarker(ObjectStartMarker)>>
    \o (IF counted THEN <<TMarker(countMarker), TInt(n)>> ELSE <<>>)
    \o entries
    \o (IF counted THEN <<>> ELSE <<TMarker(objectEndMarker)>>)

RecordInputs ==
    {In("record", "known only", ObjectStartMarker, 0, 1, ObjectOf(counted, 1, KnownEntry)) :
        counted \in BOOLEAN}
    \cup {In("record", "known first", ObjectStartMarker, 0, 2,
             ObjectOf(counted, 2, KnownEntry \o <<TString(<<98>>)>> \o u)) :
             counted \in BOOLEAN, u \in UnknownValues}
    \cup {In("record", "unknown first", ObjectStartMarker, 0, 2,
             ObjectOf(counted, 2, <<TString(<<98>>)>> \o u \o KnownEntry)) :
             counted \in BOOLEAN, u \in UnknownValues}

(* Containers whose prelude declares a singleton type and a count; an      *)
(* object carries the keys of its entries.                                 *)
Singletons == {NoOpMarker, NullMarker, TrueMarker, FalseMarker}

SingletonInputs ==
    {In("singleton", "typed", c, t, n,
        <<TMarker(c), TMarker(typeMarker), TMarker(t), TMarker(countMarker), TInt(n)>>
        \o (IF c = ObjectStartMarker THEN Entries(1, n, <<>>) ELSE <<>>)) :
        c \in Containers, t \in Singletons, n \in 0..MaxCount}

(* Values that declare a length n: a string, a high-precision number, an   *)
(* object key, a counted array, a typed array and a counted object, each   *)
(* complete.                                                               *)
AllocInputs ==
    {In("alloc", "string", 0, 0, n,
        <<TMarker(StringMarker), TString([i \in 1..n |-> 97])>>) : n \in 0..MaxCount}
    \cup {In("alloc", "hpn", 0, 0, n,
             <<TMarker(HighPrecNumMarker), TString([i \in 1..n |-> 49])>>) : n \in 0..MaxCount}
    \cup {In("alloc", "key", ObjectStartMarker, 0, n,
             <<TMarker(ObjectStartMarker), TString([i \in 1..n |-> 97]), TMarker(NullMarker),
               TMarker(objectEndMarker)>>) : n \in 1..MaxCount}
    \cup {In("alloc", "array", ArrayStartMarker, 0, n,
             <<TMarker(ArrayStartMarker), TMarker(countMarker), TInt(n)>>
             \o Repeat(n, <<TMarker(NullMarker)>>)) : n \in 0..MaxCount}
    \cup {In("alloc", "typed array", ArrayStartMarker, UInt8Marker, n,
             <<TMarker(ArrayStartMarker), TMarker(typeMarker), TMarker(UInt8Marker),
               TMarker(countMarker), TInt(n)>>
             \o [i \in 1..n |-> TUInt8(IF i = 1 THEN 76 ELSE 127)]) : n \in 0..MaxCount}
    \cup {In("alloc", "object", ObjectStartMarker, 0, n,
             <<TMarker(ObjectStartMarker), TMarker(countMarker), TInt(n)>>
             \o Entries(1, n, <<TMarker(NullMarker)>>)) : n \in 0..MaxCount}

(* Container preludes: none, a count, a type and a count, and the broken  *)
(* ones.  For the shapes that come in variants, n numbers the variant.     *)
PreludeTypes == {UInt8Marker, StringMarker}

WideCount == 300

Counts == (0..MaxCount) \cup {WideCount}

\* What follows a prelude that stops short, by variant: nothing, the
\* container's closing marker, a uint8 token.
Follow(c, n) ==
    CASE n = 0 -> <<>>
      [] n = 1 -> <<TMarker(Closer(c))>>
      [] OTHER -> <<TMarker(UInt8Marker), TUInt8(1)>>

PreludeInputs ==
    {In("prelude", "absent", c, 0, n, <<TMarker(c)>> \o Follow(c, n)) :
        c \in Containers, n \in 1..2}
    \cup {In("prelude", "count", c, 0, n, <<TMarker(c), TMarker(countMarker), TInt(n)>>) :
             c \in Containers, n \in Counts}
    \cup {In("prelude", "negative count", c, 0, n,
             <<TMarker(c), TMarker(countMarker), TInt(-n)>>) :
             c \in Containers, n \in Counts \ {0}}
    \cup {In("prelude", "typed", c, t, n,
             <<TMarker(c), TMarker(typeMarker), TMarker(t), TMarker(countMarker), TInt(n)>>) :
             c \in Containers, t \in PreludeTypes, n \in Counts}
    \cup {In("prelude", "typed negative", c, t, n,
             <<TMarker(c), TMarker(typeMarker), TMarker(t), TMarker(countMarker), TInt(-n)>>) :
             c \in Containers, t \in PreludeTypes, n \in Counts \ {0}}
    \cup {In("prelude", "type only", c, t, n,
             <<TMarker(c), TMarker(typeMarker), TMarker(t)>> \o Follow(c, n)) :
             c \in Containers, t \in PreludeTypes, n \in 0..2}
    \cup {In("prelude", "count no int", c, t, n,
             <<TMarker(c), TMarker(typeMarker), TMarker(t), TMarker(countMarker)>>
             \o Follow(c, n)) :
             c \in Containers, t \in PreludeTypes, n \in 0..1}

(* Arbitrary input: every byte string up to FuzzLen over FuzzBytes, and an *)
(* array whose count is the int64 0x3030303030303030 ("[#L00000000").      *)
FuzzBytes == {91, 93, 123, 35, 36, 85, 90, 1}

FuzzInputs ==
    {In("fuzz", "raw", 0, 0, 0, <<TRaw(x)>>) :
        x \in UNION {[1..n -> FuzzBytes] : n \in 0..FuzzLen}}
    \cup {In("fuzz", "wide count", ArrayStartMarker, 0, 0,
             <<TMarker(ArrayStartMarker), TMarker(countMarker),
               TInt64(<<48, 48, 48, 48, 48, 48, 48, 48>>)>>)}

Inputs == RecordInputs \cup SingletonInputs \cup AllocInputs \cup PreludeInputs \cup FuzzInputs

InitDecode ==
    /\ pc = "input"
    /\ block \in BOOLEAN
    /\ val \in Inputs
    /\ rev = FALSE
    /\ typ = IF val.fam = "record" THEN RecA ELSE T("any")
    /\ max \in IF val.fam = "alloc" THEN {1, DefaultMaxCollectionAlloc}
               ELSE {DefaultMaxCollectionAlloc}
    /\ wire = Render(block, val.toks)
    /\ enc = NoEnc
    /\ dec = NoDec
    /\ sub = NoSub
    /\ CacheUnused

\* Unmarshal / UnmarshalBlock of the input into a target of type typ.
UnmarshalInput ==
    /\ pc = "input"
    /\ dec' = Bind(Unmarshal(block, wire, typ, max), LAMBDA x : [st |-> x.st, v |-> x.v])
    /\ pc' = "decoded"
    /\ UNCHANGED <<block, val, rev, typ, max, wire, enc, sub, fieldCache, thr>>

\* Marshal / MarshalBlock of the value Unmarshal returned.
Remarshal ==
    /\ pc = "decoded"
    /\ dec.st = "ok"
    /\ enc' = Marshal(block, rev, dec.v)
    /\ pc' = "remarshalled"
    /\ UNCHANGED <<block, val, rev, typ, max, wire, dec, sub, fieldCache, thr>>

\* DecodeArray's opening: the `[` is asserted, then Decoder.Array opens the
\* sub-decoder.
ArrayCall ==
    /\ pc = "input"
    /\ val.c = ArrayStartMarker
    /\ \E d \in {NewDecoder(block, wire, max)} :
       \E c \in {decodeValue(d, ArrayStartMarker)} :
       \E a \in {Array(c.d)} :
          sub' = [op |-> "Array", err |-> c.err \/ a.err, d |-> a.d, keys |-> <<>>]
    /\ pc' = "opened"
    /\ UNCHANGED <<block, val, rev, typ, max, wire, enc, dec, fieldCache, thr>>

\* DecodeObject's opening: the `{` is asserted, then Decoder.Object opens
\* the sub-decoder.
ObjectCall ==
    /\ pc = "input"
    /\ val.c = ObjectStartMarker
    /\ \E d \in {NewDecoder(block, wire, max)} :
       \E c \in {decodeValue(d, ObjectStartMarker)} :
       \E o \in {Object(c.d)} :
          sub' = [op |-> "Object", err |-> c.err \/ o.err, d |-> o.d, keys |-> <<>>]
    /\ pc' = "opened"
    /\ UNCHANGED <<block, val, rev, typ, max, wire, enc, dec, fieldCache, thr>>

NextDecode == UnmarshalInput \/ Remarshal \/ ArrayCall \/ ObjectCall

SpecDecode == InitDecode /\ [][NextDecode]_vars

\* C5: an object decoded into a record succeeds with every matching field
\* set when it also holds an entry whose key names no field: that entry's
\* value is consumed and dropped, before or after the matching entry, in a
\* counted and in an unbounded object, in both forms.
C5_UnknownFieldsDiscarded ==
    (pc = "decoded" /\ val.fam = "record") =>
        dec = [st |-> "ok", v |-> Struct(RecA, <<V("int8", 8)>>)]

\* C5 witness: the object { A: 8, b: 5 } was decoded into the record and
\* the decode failed.
C5_Witness ==
    /\ pc = "decoded"
    /\ val.fam = "record"
    /\ val.shape = "known first"
    /\ dec.st = "err"

\* C6: decoding an array or an object whose prelude declares the element
\* type N, Z, T or F and a count fails, for every count, in both forms.
C6_SingletonTypeRejected ==
    (pc = "decoded" /\ val.fam = "singleton") => dec.st = "err"

\* C6 witness: a container declaring `$N` and a count of 2 was decoded and
\* a value came back.
C6_Witness ==
    /\ pc = "decoded"
    /\ val.fam = "singleton"
    /\ val.t = NoOpMarker
    /\ val.n = 2
    /\ dec.st = "ok"

\* C7: with the cap max, decoding a string, a high-precision number, an
\* object key, an array or an object whose declared length exceeds max
\* fails.
C7_AllocationCap ==
    (pc = "decoded" /\ val.fam = "alloc" /\ val.n > max) => dec.st = "err"

\* C7 witness: the typed array [ $ U # U 2 76 127 was decoded with the cap
\* 1 in block form and a value came back.
C7_Witness ==
    /\ pc = "decoded"
    /\ block
    /\ val.fam = "alloc"
    /\ val.shape = "typed array"
    /\ val.n = 2
    /\ max = 1
    /\ dec.st = "ok"

\* The peek of the token after the container marker of the input.
PeekAfterOpen ==
    peekMarker(decodeValue(NewDecoder(block, wire, max), val.c).d.r)

C9_FuzzSafety ==
    /\ (pc = "decoded" /\ typ = T("any")) => dec.st # "panic"
    /\ (pc = "remarshalled" /\ typ = T("any")) => enc.st = "ok"

\* C9 witness: the array with the count 0x3030303030303030 was decoded in
\* binary form and the decode panicked.
C9_Witness ==
    /\ pc = "decoded"
    /\ ~block
    /\ val.shape = "wide count"
    /\ dec.st = "panic"

(***************************************************************************)
(* The sub-decoders step by step: a container is opened with DecodeArray's *)
(* / DecodeObject's first steps, and the caller then calls NextElem /      *)
(* NextEntry, DecodeUInt8, DecodeKey, DecodeValue of a custom value,       *)
(* peekMarker and End in any order.  sub holds the last call: op, the      *)
(* decoder before it (pre) and after it (d), whether it failed (err) and   *)
(* with which error (e), what it returned (b: NextElem's answer, or        *)
(* whether DecodeValue invoked the value's routine; m: the marker asked    *)
(* for or peeked), and first, the first error a NextElem / NextEntry       *)
(* recorded.                                                               *)
(***************************************************************************)
MaxReads == 3

SubCount == 1

\* The element kinds of the containers: the uint8 7 and the string "b".
SubKinds == {"uint8", "string"}

SubMarker(el) == IF el = "uint8" THEN UInt8Marker ELSE StringMarker

\* An element as an untyped and as a typed container holds it.
SubElem(typed, el) ==
    (IF typed THEN <<>> ELSE <<TMarker(SubMarker(el))>>)
    \o (IF el = "uint8" THEN <<TUInt8(7)>> ELSE <<TString(<<98>>)>>)

SubBody(c, typed, el, k) ==
    Repeat(k, IF c = ArrayStartMarker THEN SubElem(typed, el)
              ELSE <<TString(<<97>>)>> \o SubElem(typed, el))

\* What stands after the elements: nothing, the container's end marker,
\* the other container's, a block of two bytes (the byte 12 in binary
\* form), a `[` with nothing after it.
Tails == {"none", "closer", "other closer", "wide", "open"}

SubTail(c, tail) ==
    CASE tail = "none" -> <<>>
      [] tail = "closer" -> <<TMarker(Closer(c))>>
      [] tail = "other closer" ->
            <<TMarker(Closer(IF c = ArrayStartMarker THEN ObjectStartMarker
                             ELSE ArrayStartMarker))>>
      [] tail = "wide" -> <<TUInt8(12)>>
      [] OTHER -> <<TRaw(<<91>>)>>

SubPrelude(shape, el, n) ==
    CASE shape = "unbounded" -> <<>>
      [] shape = "counted" -> <<TMarker(countMarker), TInt(n)>>
      [] OTHER -> <<TMarker(typeMarker), TMarker(SubMarker(el)), TMarker(countMarker), TInt(n)>>

SubInput(c, shape, el, n, k, tail) ==
    [fam |-> "sub", shape |-> shape, c |-> c, el |-> el, n |-> n, k |-> k, tail |-> tail,
     toks |-> <<TMarker(c)>> \o SubPrelude(shape, el, n)
              \o SubBody(c, shape = "typed", el, k) \o SubTail(c, tail)]

SubInputs ==
    {SubInput(c, "unbounded", el, -1, k, tail) :
        c \in Containers, el \in SubKinds, k \in 0..SubCount, tail \in Tails}
    \cup {SubInput(c, shape, el, n, k, tail) :
             c \in Containers, shape \in {"counted", "typed"}, el \in SubKinds,
             n \in 0..SubCount, k \in 0..(SubCount + 1), tail \in Tails}

\* The markers of the custom values handed to DecodeValue.
CustomMarkers == {UInt8Marker, StringMarker, ArrayStartMarker}

Call(op, pre, d, err, e, b, m, first) ==
    [op |-> op, pre |-> pre, d |-> d, err |-> err, e |-> e, b |-> b, m |-> m, first |-> first]

InitSub ==
    /\ pc = "input"
    /\ block \in BOOLEAN
    /\ val \in SubInputs
    /\ rev = FALSE
    /\ typ = T("any")
    /\ max = DefaultMaxCollectionAlloc
    /\ wire = Render(block, val.toks)
    /\ enc = NoEnc
    /\ dec = NoDec
    /\ \E d \in {NewDecoder(block, wire, max)} :
          sub = Call("none", d, d, FALSE, "", FALSE, 0, "")
    /\ CacheUnused

\* DecodeArray / DecodeObject up to the call of dataFn: the start marker is
\* asserted and Decoder.Array / Decoder.Object opens the sub-decoder.
OpenCall ==
    /\ pc = "input"
    /\ \E c \in {decodeValue(sub.d, val.c)} :
       \E o \in {IF val.c = ArrayStartMarker THEN Array(c.d) ELSE Object(c.d)} :
          /\ sub' = Call("Open", sub.d, o.d, c.err \/ o.err, c.e, FALSE, val.c, "")
          /\ pc' = IF c.err \/ o.err THEN "ended" ELSE "open"
    /\ UNCHANGED <<block, val, rev, typ, max, wire, enc, dec, fieldCache, thr>>

\* ArrayDecoder.NextElem / ObjectDecoder.NextEntry.
NextCall ==
    /\ pc = "open"
    /\ \E x \in {IF val.c = ArrayStartMarker THEN NextElem(sub.d) ELSE NextEntry(sub.d)} :
          sub' = Call("Next", sub.d, x.d, x.e # "", x.e, x.b, 0,
                      IF sub.first = "" THEN x.e ELSE sub.first)
    /\ UNCHANGED <<pc, block, val, rev, typ, max, wire, enc, dec, fieldCache, thr>>

\* Decoder.DecodeUInt8 on the sub-decoder: decodeValue(UInt8Marker, ..)
\* with the payload read as its data.
ElemCall ==
    /\ pc = "open"
    /\ sub.d.count < MaxReads
    /\ \E c \in {decodeValue(sub.d, UInt8Marker)} :
       \E x \in {IF c.err THEN [err |-> TRUE, r |-> c.d.r, e |-> c.e]
                 ELSE Bind(readUInt8(c.d.r),
                           LAMBDA y : [err |-> y.err, r |-> y.r,
                                       e |-> IF y.err THEN "failed to read uint8" ELSE ""])} :
          sub' = Call("Elem", sub.d, [c.d EXCEPT !.r = x.r], x.err, x.e, FALSE, UInt8Marker,
                      sub.first)
    /\ UNCHANGED <<pc, block, val, rev, typ, max, wire, enc, dec, fieldCache, thr>>

\* Decoder.DecodeString on the sub-decoder: decodeValue(StringMarker, ..)
\* with readString as its data.
StringCall ==
    /\ pc = "open"
    /\ sub.d.count < MaxReads
    /\ \E c \in {decodeValue(sub.d, StringMarker)} :
       \E x \in {IF c.err THEN [err |-> TRUE, r |-> c.d.r, e |-> c.e]
                 ELSE Bind(readString(c.d.r, c.d.max),
                           LAMBDA y : [err |-> y.err, r |-> y.r,
                                       e |-> IF y.err THEN "failed to read string" ELSE ""])} :
          sub' = Call("Str", sub.d, [c.d EXCEPT !.r = x.r], x.err, x.e, FALSE, StringMarker,
                      sub.first)
    /\ UNCHANGED <<pc, block, val, rev, typ, max, wire, enc, dec, fieldCache, thr>>

\* ObjectDecoder.DecodeKey.
KeyCall ==
    /\ pc = "open"
    /\ val.c = ObjectStartMarker
    /\ sub.d.count < MaxReads
    /\ \E k \in {DecodeKey(sub.d)} :
          sub' = Call("Key", sub.d, k.d, k.err, k.e, FALSE, 0, sub.first)
    /\ UNCHANGED <<pc, block, val, rev, typ, max, wire, enc, dec, fieldCache, thr>>

\* Decoder.DecodeValue(v) on the decoder or the sub-decoder, for a custom
\* value v whose UBJSONType is m and whose UnmarshalUBJSON reads nothing: b
\* tells whether UnmarshalUBJSON was called.
DecodeValueCall ==
    /\ pc \in {"input", "open"}
    /\ sub.d.count < MaxReads
    /\ \E m \in CustomMarkers :
       \E c \in {decodeValue(sub.d, m)} :
          sub' = Call("DecodeValue", sub.d, c.d, c.err, c.e, ~c.err, m, sub.first)
    /\ pc' = IF pc = "input" THEN "ended" ELSE pc
    /\ UNCHANGED <<block, val, rev, typ, max, wire, enc, dec, fieldCache, thr>>

\* reader.peekMarker on the reader the sub-decoder shares.
PeekCall ==
    /\ pc = "open"
    /\ \E p \in {peekMarker(sub.d.r)} :
          sub' = Call("Peek", sub.d, [sub.d EXCEPT !.r = p.r], p.err,
                      IF p.err THEN p.e ELSE "", FALSE, p.v, sub.first)
    /\ UNCHANGED <<pc, block, val, rev, typ, max, wire, enc, dec, fieldCache, thr>>

\* ArrayDecoder.End / ObjectDecoder.End.
EndCall ==
    /\ pc = "open"
    /\ \E x \in {IF val.c = ArrayStartMarker THEN ArrayEnd(sub.d) ELSE ObjectEnd(sub.d)} :
          sub' = Call("End", sub.d, x.d, x.err, x.e, FALSE, 0, sub.first)
    /\ pc' = "ended"
    /\ UNCHANGED <<block, val, rev, typ, max, wire, enc, dec, fieldCache, thr>>

NextSub ==
    \/ OpenCall
    \/ NextCall
    \/ ElemCall
    \/ StringCall
    \/ KeyCall
    \/ DecodeValueCall
    \/ PeekCall
    \/ EndCall

SpecSub == InitSub /\ [][NextSub]_vars

\* Whether a value read is within the sub-decoder's declared length and, in
\* an object, at a value's position.
InLimits(d) ==
    CASE d.hook = "array" -> IsNeg64(d.Len) \/ Less64(I64Of(d.count), d.Len)
      [] d.hook = "object" ->
            (IsNeg64(d.Len) \/ Less64(I64Of(d.count), Dbl64(d.Len))) /\ d.count % 2 = 1
      [] OTHER -> TRUE

\* The marker a value read on d obtains: the declared one in a typed
\* container, else the one the reader reads.
Obtained(d) ==
    IF ~InLimits(d) THEN [ok |-> FALSE, m |-> 0]
    ELSE IF d.Type # 0 THEN [ok |-> TRUE, m |-> d.Type]
    ELSE Bind(readMarker(d.r), LAMBDA x : [ok |-> ~x.err, m |-> x.v])

\* C14: DecodeValue(v) calls v's decode routine if and only if the marker it
\* obtained (read from the stream, or the declared type of a typed
\* container) equals v.UBJSONType(); on a mismatch it fails with "wrong type
\* read" and the routine is not called.
C14_DecodeValueDispatch ==
    (pc \in {"open", "ended"} /\ sub.op = "DecodeValue") =>
        \E got \in {Obtained(sub.pre)} :
           /\ sub.b <=> (got.ok /\ got.m = sub.m)
           /\ sub.b => ~sub.err
           /\ (got.ok /\ got.m # sub.m) => (sub.err /\ sub.e = "wrong type read" /\ ~sub.b)

\* C14 witness: inside a container that declares the type U, DecodeValue of
\* a custom value of type U called the routine with no marker read.
C14_Witness ==
    /\ pc = "open"
    /\ sub.op = "DecodeValue"
    /\ sub.pre.Type = UInt8Marker
    /\ sub.m = UInt8Marker
    /\ sub.b
    /\ sub.d.r = sub.pre.r

\* A read made after a peek (a) against the same read made instead of it
\* (b): the same outcome, the same value when it succeeds, the same stream
\* left.
SameRead(a, b) ==
    /\ a.err = b.err
    /\ ~a.err => a.v = b.v
    /\ Rest(a.r) = Rest(b.r)

\* C16: peekMarker never consumes, in either form: a second peek returns
\* what the first returned, the stream is left where it was, and the next
\* read of any kind (a marker, a uint8, an integer, a string) returns what
\* it would have returned without the peek, the peeked marker for a marker
\* read; no block is lost or delivered twice.
C16_PeekNeverConsumes ==
    (pc = "open" /\ sub.op = "Peek") =>
        /\ \E again \in {peekMarker(sub.d.r)} :
              /\ again.err = sub.err
              /\ again.v = sub.m
              /\ again.err => again.e = sub.e
              /\ Rest(again.r) = Rest(sub.d.r)
        /\ Rest(sub.d.r) = Rest(sub.pre.r)
        /\ \E m \in {readMarker(sub.d.r)} :
              /\ SameRead(m, readMarker(sub.pre.r))
              /\ ~sub.err => (~m.err /\ m.v = sub.m)
        /\ SameRead(readUInt8(sub.d.r), readUInt8(sub.pre.r))
        /\ SameRead(readInt(sub.d.r), readInt(sub.pre.r))
        /\ SameRead(readString(sub.d.r, max), readString(sub.pre.r, max))

\* C16 witness: in block form, with the array end marker `[]]` next, the
\* peek failed and the two bytes `[]` were consumed.
C16_Witness ==
    /\ pc = "open"
    /\ block
    /\ sub.op = "Peek"
    /\ IsPrefix(writeMarker(block, arrayEndMarker), Rest(sub.pre.r))
    /\ sub.err
    /\ sub.e = "empty block"
    /\ Len(Rest(sub.d.r)) = Len(Rest(sub.pre.r)) - 2

\* The marker that stands next in a stream, by the format: the first byte
\* in binary form, the byte of a one-byte block in block form; 0 for none.
NextMarkerOf(b, stream) ==
    IF b THEN (IF Len(stream) >= 3 /\ stream[1] = 91 /\ stream[3] = 93 THEN stream[2] ELSE 0)
    ELSE (IF stream # <<>> THEN stream[1] ELSE 0)

\* The count a bounded sub-decoder must have reached at End.
FullCount(d) == IF d.hook = "object" THEN Dbl64(d.Len) ELSE d.Len

\* C17: End succeeds if and only if no deferred error is pending, an
\* object's count is even, and either the container is bounded and count =
\* len (2*len for an object) or it is unbounded and the next marker in the
\* stream is the matching end marker, which End consumes.
C17_EndSucceedsIff ==
    (pc = "ended" /\ sub.op = "End") =>
        \E p \in {sub.pre} :
        \E end \in {writeMarker(block, Closer(val.c))} :
           /\ ~sub.err <=>
                 /\ ~p.err
                 /\ p.hook = "object" => p.count % 2 = 0
                 /\ IF IsNeg64(p.Len) THEN NextMarkerOf(block, Rest(p.r)) = Closer(val.c)
                    ELSE I64Of(p.count) = FullCount(p)
           /\ (~sub.err /\ IsNeg64(p.Len)) => Rest(p.r) = end \o Rest(sub.d.r)
           /\ (~sub.err /\ ~IsNeg64(p.Len)) => Rest(p.r) = Rest(sub.d.r)

\* C17 witness: in block form, End of an unbounded array whose element was
\* read, with the end marker `[]]` next, failed.
C17_Witness ==
    /\ pc = "ended"
    /\ block
    /\ sub.op = "End"
    /\ val.c = ArrayStartMarker
    /\ IsNeg64(sub.pre.Len)
    /\ sub.pre.count = 1
    /\ ~sub.pre.err
    /\ Rest(sub.pre.r) = writeMarker(block, arrayEndMarker)
    /\ sub.err

\* C18: in a bounded sub-decoder, the element read after len elements (in
\* an object, the key or value read after 2*len of them) returns the "too
\* many" error and reads no byte from the stream.
C18_TooManyReads ==
    (pc = "open" /\ sub.op \in {"Elem", "Key", "DecodeValue"} /\ ~IsNeg64(sub.pre.Len)
        /\ ~Less64(I64Of(sub.pre.count), FullCount(sub.pre))) =>
        /\ sub.err
        /\ sub.e = "too many"
        /\ sub.d.r = sub.pre.r

\* C18 witness: the second element read of an array declared with length 1
\* whose stream holds a second element.
C18_Witness ==
    /\ pc = "open"
    /\ sub.op = "Elem"
    /\ val.c = ArrayStartMarker
    /\ sub.pre.Len = I64Of(1)
    /\ sub.pre.count = 1
    /\ sub.pre.Type = 0
    /\ NextMarkerOf(block, Rest(sub.pre.r)) = UInt8Marker
    /\ sub.e = "too many"

\* C19: on an unbounded container NextElem / NextEntry peeks the next
\* marker without consuming it and returns false if and only if it is the
\* container's end marker; on a bounded container it reads nothing and
\* returns count < len (count < 2*len for an object).
C19_NextElem ==
    (pc = "open" /\ sub.op = "Next") =>
        \E p \in {sub.pre} :
           /\ ~IsNeg64(p.Len) =>
                 /\ sub.d = p
                 /\ sub.b <=> Less64(I64Of(p.count), FullCount(p))
           /\ (IsNeg64(p.Len) /\ NextMarkerOf(block, Rest(p.r)) # 0) =>
                 /\ sub.b <=> NextMarkerOf(block, Rest(p.r)) # Closer(val.c)
                 /\ Rest(sub.d.r) = Rest(p.r)

\* C19 witness: in block form, NextEntry of an unbounded object with the
\* array end marker `[]]` next, which is not the object's end marker,
\* returned false.
C19_Witness ==
    /\ pc = "open"
    /\ block
    /\ sub.op = "Next"
    /\ val.c = ObjectStartMarker
    /\ IsNeg64(sub.pre.Len)
    /\ NextMarkerOf(block, Rest(sub.pre.r)) = arrayEndMarker
    /\ ~sub.b

\* C20: when NextElem / NextEntry cannot peek the next marker it returns
\* false and records the error; End then returns the first error so
\* recorded, reading nothing from the stream, whatever the count and the
\* next marker are.
C20_DeferredError ==
    /\ (pc = "open" /\ sub.op = "Next" /\ IsNeg64(sub.pre.Len) /\ peekMarker(sub.pre.r).err) =>
          /\ ~sub.b
          /\ sub.e # ""
          /\ sub.d.err
          /\ sub.d.why = sub.e
    /\ (pc = "ended" /\ sub.op = "End" /\ sub.first # "") =>
          /\ sub.err
          /\ sub.e = sub.first
          /\ sub.d = sub.pre

\* C20 witness: End returned an error that a later NextElem / NextEntry
\* recorded over the first one.
C20_Witness ==
    /\ pc = "ended"
    /\ sub.op = "End"
    /\ sub.first = "empty block"
    /\ sub.err
    /\ sub.e = "failed to read block start"
    /\ sub.d = sub.pre

(***************************************************************************)
(* The encoder driven directly: structs through Marshal / MarshalBlock,    *)
(* containers through a marshaler that writes the start marker and calls   *)
(* Encoder.EncodeArray or Encoder.EncodeObject with an element type, a     *)
(* count and elements of its choice, and getType on element types.         *)
(***************************************************************************)
\* The largest declared count of a directly encoded container.
EncCount == 1

\* Struct types: plain fields, fields with tags, an unexported field.
PlainRec == StructOf(<<Field(<<65>>, T("uint8")), Field(<<66>>, T("string"))>>)
TaggedRec ==
    StructOf(<<TaggedField(<<65>>, TRUE, <<>>, <<97>>, T("uint8")),
               TaggedField(<<66>>, TRUE, <<106>>, <<98>>, T("string"))>>)
JsonRec ==
    StructOf(<<TaggedField(<<65>>, TRUE, <<106>>, <<>>, T("uint8")),
               Field(<<66>>, T("string"))>>)
HiddenRec ==
    StructOf(<<TaggedField(<<99>>, FALSE, <<>>, <<>>, T("uint8")),
               Field(<<66>>, T("string"))>>)
EmptyRec == StructOf(<<>>)
RecTypes == {PlainRec, TaggedRec, JsonRec, HiddenRec, EmptyRec}

\* The elements a directly encoded container is given.
EncElems == {V("uint8", 7), V("string", <<120>>)}
EncKeys == {<<97>>, <<98>>}
\* The element types it is given.
EncElemTypes == {NoType, T("uint8"), T("string")}

\* The types getType is asked about.
GetTypeTypes ==
    {T(k) : k \in {"string", "int8", "uint8", "int16", "int32", "int64", "float32",
                   "float64", "char", "hpn", "bool", "int", "any"}}
    \cup {SliceOf(T("uint8")), ArrayOf(2, T("string")), MapOf(T("int8")), PlainRec}
    \cup {CustomOf(m) : m \in {StringMarker, ObjectStartMarker, TrueMarker, FalseMarker}}

SeqsUpTo(S, n) == UNION {[1..k -> S] : k \in 0..n}

EncInputs ==
    {[fam |-> "record", v |-> Struct(t, [i \in 1..Len(t.f) |->
                                            IF t.f[i].t.k = "uint8" THEN V("uint8", n)
                                            ELSE V("string", x)]), ptr |-> p] :
        t \in RecTypes, n \in {0, 7}, x \in {<<>>, <<120>>}, p \in BOOLEAN}
    \cup {[fam |-> "array", t |-> t, n |-> n, elems |-> e] :
            t \in EncElemTypes, n \in -1..(EncCount + 1),
            e \in SeqsUpTo(EncElems, EncCount + 1)}
    \cup {[fam |-> "object", t |-> t, n |-> n,
           elems |-> [i \in 1..Len(e) |-> [Key |-> k, Value |-> e[i]]]] :
            t \in EncElemTypes, n \in -1..(EncCount + 1),
            e \in SeqsUpTo(EncElems, EncCount + 1), k \in EncKeys}
    \cup {[fam |-> "type", t |-> t] : t \in GetTypeTypes}

InitEncode ==
    /\ pc = "start"
    /\ block \in BOOLEAN
    /\ val \in EncInputs
    /\ rev = FALSE
    /\ typ = T("any")
    /\ max = DefaultMaxCollectionAlloc
    /\ wire = <<>>
    /\ enc = NoEnc
    /\ dec = NoDec
    /\ sub = NoSub
    /\ CacheUnused

\* Marshal / MarshalBlock of the struct val.v, or of a pointer to it.
EncodeStruct ==
    /\ pc = "start"
    /\ val.fam = "record"
    /\ enc' = Marshal(block, rev,
                      IF val.ptr THEN [k |-> "ptr", e |-> val.v.t, v |-> val.v] ELSE val.v)
    /\ wire' = enc'.b
    /\ pc' = "encoded"
    /\ UNCHANGED <<block, val, rev, typ, max, dec, sub, fieldCache, thr>>

\* A marshaler that writes `[` and calls Encoder.EncodeArray.
EncodeArrayElems ==
    /\ pc = "start"
    /\ val.fam = "array"
    /\ enc' = Then(Ok(writeType(block, ArrayStartMarker)),
                   EncodeArray(block, 0, rev, val.t, val.n, val.elems))
    /\ wire' = enc'.b
    /\ pc' = "encoded"
    /\ UNCHANGED <<block, val, rev, typ, max, dec, sub, fieldCache, thr>>

\* A marshaler that writes `{` and calls Encoder.EncodeObject.
EncodeObjectEntries ==
    /\ pc = "start"
    /\ val.fam = "object"
    /\ enc' = Then(Ok(writeType(block, ObjectStartMarker)),
                   EncodeObject(block, 0, rev, val.t, val.n, val.elems))
    /\ wire' = enc'.b
    /\ pc' = "encoded"
    /\ UNCHANGED <<block, val, rev, typ, max, dec, sub, fieldCache, thr>>

\* getType of the type val.t.
GetTypeCall ==
    /\ pc = "start"
    /\ val.fam = "type"
    /\ sub' = [op |-> "getType", m |-> getType(val.t)]
    /\ pc' = "typed"
    /\ UNCHANGED <<block, val, rev, typ, max, wire, enc, dec, fieldCache, thr>>

NextEncode == EncodeStruct \/ EncodeArrayElems \/ EncodeObjectEntries \/ GetTypeCall

SpecEncode == InitEncode /\ [][NextEncode]_vars

\* The name a field is documented to have on the wire: its `ubjson` tag
\* when present, else the field name; a `json` tag is ignored.
WireName(f) == IF f.ubjson # <<>> THEN f.ubjson ELSE f.name

\* The key and value of each exported field from field i on, in order.
RECURSIVE RecordEntries(_, _, _)
RecordEntries(b, s, i) ==
    IF i > Len(s.t.f) THEN <<>>
    ELSE (IF s.t.f[i].exported
          THEN writeString(b, WireName(s.t.f[i])) \o Strip(Marshal(b, FALSE, s.v[i]).b)
          ELSE <<>>) \o RecordEntries(b, s, i + 1)

\* C11: a struct, passed by value or through a non-nil pointer, is written
\* as an unbounded object: `{`, then for each exported field in order its
\* key (the `ubjson` tag, else the field name) and its value, then `}`,
\* with no `#` count; unexported fields are skipped.
C11_RecordEncoding ==
    (pc = "encoded" /\ val.fam = "record") =>
        /\ enc.st = "ok"
        /\ Strip(wire) = writeMarker(block, ObjectStartMarker)
                         \o RecordEntries(block, val.v, 1)
                         \o writeMarker(block, objectEndMarker)

\* C11 witness: a struct with a `ubjson` tag on a field was marshalled.
C11_Witness ==
    /\ pc = "encoded"
    /\ val.fam = "record"
    /\ val.v.t = TaggedRec
    /\ ~val.ptr
    /\ enc.st = "ok"

\* The i-th value a directly encoded container is given.
ElemValue(c, i) == IF c.fam = "array" THEN c.elems[i] ELSE c.elems[i].Value

\* The first element whose own marker is not the container's element
\* marker, 0 when every element matches.
FirstBad(c) ==
    Bind({i \in 1..Len(c.elems) :
            MarshalerMarker(getMarshaler(ElemValue(c, i))) # getType(c.t)},
         LAMBDA bad : IF bad = {} THEN 0 ELSE CHOOSE i \in bad : \A j \in bad : i <= j)

\* `[` or `{`, `$`, the element marker, `#` and the count.
TypedPrelude(b, c) ==
    writeMarker(b, IF c.fam = "array" THEN ArrayStartMarker ELSE ObjectStartMarker)
    \o writeMarker(b, typeMarker) \o writeMarker(b, getType(c.t))
    \o writeMarker(b, countMarker) \o writeInt(b, I64Of(c.n))

\* The first n elements without their markers, each after its key in an object.
RECURSIVE ElidedElems(_, _, _)
ElidedElems(b, c, n) ==
    IF n = 0 THEN <<>>
    ELSE ElidedElems(b, c, n - 1)
         \o (IF c.fam = "object" THEN writeString(b, c.elems[n].Key) ELSE <<>>)
         \o PayloadOf(b, ElemValue(c, n))

\* C12: in a typed container an element whose marker equals the element
\* marker T is written as its payload without its marker; an element with
\* a different marker fails with "wrong type write" and nothing is
\* written for it.
C12_TypedElisionOnEncode ==
    (pc = "encoded" /\ val.fam \in {"array", "object"} /\ val.t # NoType
        /\ val.n = Len(val.elems)) =>
        IF FirstBad(val) = 0
        THEN /\ enc.st = "ok"
             /\ Strip(wire) = TypedPrelude(block, val) \o ElidedElems(block, val, Len(val.elems))
        ELSE /\ enc.st = "err"
             /\ val.fam = "array" =>
                   Strip(wire) = TypedPrelude(block, val)
                                 \o ElidedElems(block, val, FirstBad(val) - 1)

\* C12 witness: an array typed `U` was given a uint8 and then a string.
C12_Witness ==
    /\ pc = "encoded"
    /\ val.fam = "array"
    /\ val.t = T("uint8")
    /\ val.n = Len(val.elems)
    /\ FirstBad(val) = Len(val.elems)
    /\ Len(val.elems) > 1

\* `[` or `{`, `$` and the element marker when typed, `#` and the count.
CountedPrelude(b, c) ==
    IF c.t # NoType THEN TypedPrelude(b, c)
    ELSE writeMarker(b, IF c.fam = "array" THEN ArrayStartMarker ELSE ObjectStartMarker)
         \o writeMarker(b, countMarker) \o writeInt(b, I64Of(c.n))

\* The first n elements, each after its key in an object, with their
\* markers unless the container is typed.
RECURSIVE WrittenElems(_, _, _)
WrittenElems(b, c, n) ==
    IF n = 0 THEN <<>>
    ELSE WrittenElems(b, c, n - 1)
         \o (IF c.fam = "object" THEN writeString(b, c.elems[n].Key) ELSE <<>>)
         \o (IF c.t # NoType THEN PayloadOf(b, ElemValue(c, n))
             ELSE Strip(Marshal(b, FALSE, ElemValue(c, n)).b))

\* C13: a container encoded with a declared length len >= 0 takes exactly
\* len elements: with more the write past len fails ("too many"), with
\* fewer End fails ("len count mismatch"), and with exactly len the
\* encoding succeeds and ends after the last element, with no `]` or `}`.
C13_BoundedEncoderCount ==
    (pc = "encoded" /\ val.fam \in {"array", "object"} /\ val.n >= 0
        /\ (val.t = NoType \/ FirstBad(val) = 0)) =>
        IF Len(val.elems) = val.n
        THEN /\ enc.st = "ok"
             /\ Strip(wire) = CountedPrelude(block, val)
                              \o WrittenElems(block, val, Len(val.elems))
        ELSE enc.st = "err"

\* C13 witness: a container declared with one element was given two.
C13_Witness ==
    /\ pc = "encoded"
    /\ val.fam \in {"array", "object"}
    /\ val.n = 1
    /\ Len(val.elems) = 2
    /\ (val.t = NoType \/ FirstBad(val) = 0)

\* The documented fixed marker of an element type, 0 for none.
ElementMarker(t) ==
    CASE t.k = "string" -> StringMarker
      [] t.k = "int8" -> Int8Marker
      [] t.k = "uint8" -> UInt8Marker
      [] t.k = "int16" -> Int16Marker
      [] t.k = "int32" -> Int32Marker
      [] t.k = "int64" -> Int64Marker
      [] t.k = "float32" -> Float32Marker
      [] t.k = "float64" -> Float64Marker
      [] t.k = "char" -> CharMarker
      [] t.k = "hpn" -> HighPrecNumMarker
      [] t.k \in {"slice", "array"} -> ArrayStartMarker
      [] t.k \in {"map", "struct"} -> ObjectStartMarker
      [] t.k = "custom" -> IF t.m \in {TrueMarker, FalseMarker} THEN 0 ELSE t.m
      [] OTHER -> 0

\* C15: the fixed marker of an element type is S for string, i, U, I, l, L
\* for int8, uint8, int16, int32, int64, d and D for float32 and float64,
\* C for Char, H for HighPrecNumber, `[` for a slice or array, `{` for a
\* map or struct, and the declared marker for a custom type unless that is
\* T or F; bool, int, interface values and custom T / F types have none.
C15_FixedMarkerTable ==
    (pc = "typed" /\ sub.op = "getType") => sub.m = ElementMarker(val.t)

\* C15 witness: getType was asked about a slice type.
C15_Witness ==
    /\ pc = "typed"
    /\ sub.op = "getType"
    /\ val.t.k = "slice"

\* C21: in a sub-decoder with a declared type T a value read takes T as
\* its marker and reads no marker from the stream, so a read expecting T
\* goes straight to the payload and a read expecting another marker fails
\* with "wrong type read" with the stream untouched; in an untyped
\* sub-decoder a value read consumes exactly one marker.
C21_TypedDecoding ==
    (pc = "open" /\ sub.op \in {"Elem", "DecodeValue"} /\ InLimits(sub.pre)) =>
        IF sub.pre.Type # 0
        THEN /\ (sub.m = sub.pre.Type /\ sub.op = "DecodeValue") =>
                    (~sub.err /\ sub.d.r = sub.pre.r)
             /\ (sub.m = sub.pre.Type /\ sub.op = "Elem") =>
                    \E y \in {readUInt8(sub.pre.r)} : sub.err = y.err /\ sub.d.r = y.r
             /\ sub.m # sub.pre.Type =>
                    (sub.err /\ sub.e = "wrong type read" /\ sub.d.r = sub.pre.r)
        ELSE \E x \in {readMarker(sub.pre.r)} :
                ~x.err =>
                    /\ sub.op = "DecodeValue" => sub.d.r = x.r
                    /\ (sub.op = "Elem" /\ x.v = sub.m) =>
                          \E y \in {readUInt8(x.r)} : sub.err = y.err /\ sub.d.r = y.r
                    /\ x.v # sub.m =>
                          (sub.err /\ sub.e = "wrong type read" /\ sub.d.r = x.r)

\* C21 witness: in an object declaring the type U, DecodeUInt8 read the
\* value 7 of the first entry from the payload alone.
C21_Witness ==
    /\ pc = "open"
    /\ sub.op = "Elem"
    /\ sub.pre.hook = "object"
    /\ sub.pre.Type = UInt8Marker
    /\ InLimits(sub.pre)
    /\ ~sub.err
    /\ readUInt8(sub.pre.r).r = sub.d.r
    /\ readUInt8(sub.pre.r).v = 7

\* A short string as it stands on the wire: the marker U, the length, the
\* bytes.
LenPrefixed(b, x) ==
    writeMarker(b, UInt8Marker) \o writeUInt8(b, Len(x))
    \o (IF x = <<>> THEN <<>> ELSE IF b THEN writeBlocked(x) ELSE x)

\* The tokens of a stream with every string spelt out byte by byte.
RECURSIVE Explicit(_, _)
Explicit(b, toks) ==
    IF toks = <<>> THEN <<>>
    ELSE (IF Head(toks)[1] = "string" THEN LenPrefixed(b, Head(toks)[2])
          ELSE RenderToken(b, Head(toks))) \o Explicit(b, Tail(toks))

\* Whether a key is due on the object sub-decoder d.
KeyDue(d) ==
    /\ d.hook = "object"
    /\ d.count % 2 = 0
    /\ IsNeg64(d.Len) \/ Less64(I64Of(d.count), Dbl64(d.Len))

\* C22: the length of a string or of an object key is written with its own
\* marker and read with its own marker, in untyped containers and in
\* containers typed `$S` or `$U` alike, and the length is not counted: the
\* read of a string element or of a key consumes the marker U, the length
\* and the bytes, and advances the container's count by one.
C22_LengthPrefixes ==
    /\ wire = Explicit(block, val.toks)
    /\ (pc = "open" /\ sub.op = "Str" /\ InLimits(sub.pre) /\ sub.pre.Type \in {0, StringMarker}) =>
          \E tok \in {(IF sub.pre.Type = 0 THEN writeMarker(block, StringMarker) ELSE <<>>)
                      \o LenPrefixed(block, <<98>>)} :
             IsPrefix(tok, Rest(sub.pre.r)) =>
                /\ ~sub.err
                /\ Rest(sub.pre.r) = tok \o Rest(sub.d.r)
                /\ sub.d.count = sub.pre.count + 1
    /\ (pc = "open" /\ sub.op = "Key" /\ KeyDue(sub.pre)) =>
          \E tok \in {LenPrefixed(block, <<97>>)} :
             IsPrefix(tok, Rest(sub.pre.r)) =>
                /\ ~sub.err
                /\ Rest(sub.pre.r) = tok \o Rest(sub.d.r)
                /\ sub.d.count = sub.pre.count + 1

\* C22 witness: in an object typed `$S` the key and then the string value
\* of the entry were read, each with the marker of its length.
C22_Witness ==
    /\ pc = "open"
    /\ sub.op = "Str"
    /\ sub.pre.hook = "object"
    /\ sub.pre.Type = StringMarker
    /\ sub.pre.count = 1
    /\ ~sub.err
    /\ Rest(sub.pre.r) = LenPrefixed(block, <<98>>) \o Rest(sub.d.r)

\* Whether the elements of a sequence with element type t are written
\* without their markers: t is not the any-type and has a fixed marker.
Elided(t) == t.k # "any" /\ ElementMarker(t) # 0

\* The elements from the i-th on, each with its own marker.
RECURSIVE Marked(_, _, _)
Marked(b, elems, i) ==
    IF i > Len(elems) THEN <<>>
    ELSE Strip(Marshal(b, FALSE, elems[i]).b) \o Marked(b, elems, i + 1)

\* C23: a sequence of n elements is written as `[`, then `$` and the
\* element marker if and only if the element type is not the any-type and
\* has a fixed marker, then `#` and n, then the elements (with their own
\* markers when no `$` was written), and no closing `]`.
C23_SequenceEncoding ==
    (pc = "marshalled" /\ val.k \in {"slice", "array"}) =>
        /\ enc.st = "ok"
        /\ Strip(wire) = writeMarker(block, ArrayStartMarker)
                         \o (IF Elided(val.e)
                             THEN writeMarker(block, typeMarker)
                                  \o writeMarker(block, ElementMarker(val.e))
                             ELSE <<>>)
                         \o writeMarker(block, countMarker)
                         \o writeInt(block, I64Of(Len(val.v)))
                         \o (IF Elided(val.e) THEN Payloads(block, val.v, 1)
                             ELSE Marked(block, val.v, 1))

\* C23 witness: a slice of ints with an element was marshalled.
C23_Witness ==
    /\ pc = "marshalled"
    /\ val.k = "slice"
    /\ val.e.k = "int"
    /\ Len(val.v) > 0

(***************************************************************************)
(* Array containers of uint8 elements decoded into a fixed-size array, a   *)
(* slice and an interface{}: unbounded (closed by `]` or cut before it),   *)
(* counted and typed, declaring n elements and holding k.                  *)
(***************************************************************************)
\* The largest declared length and host array length.
ArrCount == 2

\* The i-th element of the containers.
ArrElem(i) == 20 + i

ArrToks(shape, n, k, closed) ==
    <<TMarker(ArrayStartMarker)>>
    \o SubPrelude(shape, "uint8", n)
    \o [j \in 1..(IF shape = "typed" THEN k ELSE 2 * k) |->
          IF shape = "typed" THEN TUInt8(ArrElem(j))
          ELSE IF j % 2 = 1 THEN TMarker(UInt8Marker) ELSE TUInt8(ArrElem(j \div 2))]
    \o (IF closed THEN <<TMarker(arrayEndMarker)>> ELSE <<>>)

ArrInput(shape, n, k, closed) ==
    [fam |-> "seq", shape |-> shape, n |-> n, k |-> k, closed |-> closed,
     toks |-> ArrToks(shape, n, k, closed)]

ArrInputs ==
    {ArrInput("unbounded", -1, k, closed) : k \in 0..(ArrCount + 1), closed \in BOOLEAN}
    \cup {ArrInput(shape, n, k, FALSE) :
             shape \in {"counted", "typed"}, n \in 0..ArrCount, k \in 0..(ArrCount + 1)}

\* The targets: *[n]uint8, *[]uint8, *interface{}.
ArrTargets == {ArrayOf(n, T("uint8")) : n \in 0..ArrCount} \cup {SliceOf(T("uint8")), T("any")}

InitArray ==
    /\ pc = "input"
    /\ block \in BOOLEAN
    /\ val \in ArrInputs
    /\ rev = FALSE
    /\ typ \in ArrTargets
    /\ max = DefaultMaxCollectionAlloc
    /\ wire = Render(block, val.toks)
    /\ enc = NoEnc
    /\ dec = NoDec
    /\ sub = NoSub
    /\ CacheUnused

NextArray == UnmarshalInput

SpecArray == InitArray /\ [][NextArray]_vars

\* The first n elements of the containers, as decoded values.
ArrValues(n) == [i \in 1..n |-> V("uint8", ArrElem(i))]

\* Whether the container of the input holds exactly n elements.
HoldsExactly(c, n) ==
    IF c.shape = "unbounded" THEN c.closed /\ c.k = n ELSE c.n = n /\ c.k >= n

\* C24: an array container decoded into a host array of length n succeeds
\* only when it holds exactly n elements and otherwise fails with an
\* error; on success element i of the array is the i-th decoded element.
C24_ArrayIntoArray ==
    (pc = "decoded" /\ typ.k = "array") =>
        /\ dec.st = "ok" =>
              /\ HoldsExactly(val, typ.n)
              /\ dec.v = [k |-> "array", e |-> T("uint8"), v |-> ArrValues(typ.n)]
        /\ ~HoldsExactly(val, typ.n) => dec.st = "err"

\* C24 witness: a container declaring two elements was decoded into a
\* host array of length 2.
C24_Witness ==
    /\ pc = "decoded"
    /\ typ.k = "array"
    /\ typ.n = 2
    /\ val.n = 2
    /\ dec.st = "ok"

\* Whether the container of the input is complete: it holds the elements
\* it declares, or is closed by `]`.
WellFormed(c) == IF c.shape = "unbounded" THEN c.closed ELSE c.k = c.n

\* C25: a complete array container decoded into a slice (or into an
\* interface{}, as a new slice) leaves the destination holding exactly the
\* container's elements in stream order, when the container is counted and
\* when it is unbounded.
C25_ArrayIntoSlice ==
    (pc = "decoded" /\ typ.k \in {"slice", "any"} /\ WellFormed(val)) =>
        /\ dec.st = "ok"
        /\ dec.v.k = "slice"
        /\ dec.v.v = ArrValues(val.k)

\* C25 witness: an unbounded container of two elements, closed by `]`, was
\* decoded into a slice without an error.
C25_Witness ==
    /\ pc = "decoded"
    /\ typ.k = "slice"
    /\ val.shape = "unbounded"
    /\ val.closed
    /\ val.k = 2
    /\ dec.st = "ok"

(***************************************************************************)
(* The field-descriptor cache (cachedTypeFields): threads call it for      *)
(* struct types; each step below is one statement of the function, so the  *)
(* calls interleave between statements.                                    *)
(***************************************************************************)
\* The number of threads and of calls each thread makes.
CacheThreads == 2
CacheCalls == 1

CacheTypes == {PlainRec, TaggedRec}

\* typeFields: the names of the exported fields in order (the `ubjson` tag
\* when present, else the field name) and the field index of each name.
typeFields(t) ==
    LET idx == SelectSeq([i \in 1..Len(t.f) |-> i], LAMBDA i : t.f[i].exported)
        name(i) == IF t.f[i].ubjson # <<>> THEN t.f[i].ubjson ELSE t.f[i].name
        names == [j \in 1..Len(idx) |-> name(idx[j])]
    IN  [names |-> names,
         indexByName |-> [n \in {names[j] : j \in 1..Len(names)} |->
                             CHOOSE i \in 1..Len(t.f) :
                                /\ t.f[i].exported /\ name(i) = n
                                /\ \A k \in 1..Len(t.f) :
                                      (t.f[k].exported /\ name(k) = n) => k <= i]]

NoFields == [names |-> <<>>, indexByName |-> <<>>]

\* A thread outside cachedTypeFields.  m, f and newM are the function's
\* locals (maps by identity), t its argument; calls counts the thread's
\* calls, rets holds what its calls returned by type, held the owner of
\* the mutex at the thread's last Load of line 18.
IdleThread ==
    [pc |-> "idle", t |-> NoType, m |-> <<>>, f |-> NoFields, newM |-> <<>>, calls |-> 0,
     rets |-> <<>>, held |-> 0]

\* The content of the map with identity id; the nil map is empty.
MapAt(id) == IF id = <<>> THEN <<>> ELSE fieldCache.maps[id]

InitCache ==
    /\ pc = "cache"
    /\ block = FALSE
    /\ val = Nil
    /\ rev = FALSE
    /\ typ = T("any")
    /\ max = DefaultMaxCollectionAlloc
    /\ wire = <<>>
    /\ enc = NoEnc
    /\ dec = NoDec
    /\ sub = NoSub
    /\ fieldCache = NoCache
    /\ thr = [self \in 1..CacheThreads |-> IdleThread]

\* A thread calls cachedTypeFields(t).
CallCached(self) ==
    /\ thr[self].pc = "idle"
    /\ thr[self].calls < CacheCalls
    /\ \E t \in CacheTypes :
          thr' = [thr EXCEPT ![self].pc = "load", ![self].t = t, ![self].calls = @ + 1]
    /\ UNCHANGED <<pc, block, val, rev, typ, max, wire, enc, dec, sub, fieldCache>>

\* Lines 18-22: load the snapshot; return the entry when it has one.
LoadSnapshot(self) ==
    /\ thr[self].pc = "load"
    /\ \E m \in {fieldCache.value} :
          thr' = IF thr[self].t \in DOMAIN MapAt(m)
                 THEN [thr EXCEPT ![self].pc = "idle", ![self].m = m,
                                  ![self].f = MapAt(m)[thr[self].t],
                                  ![self].rets = (thr[self].t :> MapAt(m)[thr[self].t]) @@ @,
                                  ![self].held = fieldCache.mu]
                 ELSE [thr EXCEPT ![self].pc = "compute", ![self].m = m,
                                  ![self].held = fieldCache.mu]
    /\ UNCHANGED <<pc, block, val, rev, typ, max, wire, enc, dec, sub, fieldCache>>

\* Line 26: compute the descriptor without the lock.
ComputeFields(self) ==
    /\ thr[self].pc = "compute"
    /\ thr' = [thr EXCEPT ![self].pc = "lock", ![self].f = typeFields(thr[self].t)]
    /\ UNCHANGED <<pc, block, val, rev, typ, max, wire, enc, dec, sub, fieldCache>>

\* Line 28: fieldCache.mu.Lock().
LockMu(self) ==
    /\ thr[self].pc = "lock"
    /\ fieldCache.mu = 0
    /\ fieldCache' = [fieldCache EXCEPT !.mu = self]
    /\ thr' = [thr EXCEPT ![self].pc = "reload"]
    /\ UNCHANGED <<pc, block, val, rev, typ, max, wire, enc, dec, sub>>

\* Line 29 with the snapshot of line 18 kept instead of loaded again.
ReloadSnapshotStale(self) ==
    /\ thr[self].pc = "reload"
    /\ thr' = [thr EXCEPT ![self].pc = "copy"]
    /\ UNCHANGED <<pc, block, val, rev, typ, max, wire, enc, dec, sub, fieldCache>>

\* Line 29: load the snapshot again, under the lock.
ReloadSnapshot(self) ==
    /\ thr[self].pc = "reload"
    /\ thr' = [thr EXCEPT ![self].pc = "copy", ![self].m = fieldCache.value]
    /\ UNCHANGED <<pc, block, val, rev, typ, max, wire, enc, dec, sub, fieldCache>>

\* Lines 30-33: a new map with the entries of m.
CopySnapshot(self) ==
    /\ thr[self].pc = "copy"
    /\ \E id \in {<<self, thr[self].calls>>} :
          /\ fieldCache' = [fieldCache EXCEPT !.maps = (id :> MapAt(thr[self].m)) @@ @]
          /\ thr' = [thr EXCEPT ![self].pc = "add", ![self].newM = id]
    /\ UNCHANGED <<pc, block, val, rev, typ, max, wire, enc, dec, sub>>

\* Line 34 writing the entry into m, the loaded map, instead of newM.
AddEntryInPlace(self) ==
    /\ thr[self].pc = "add"
    /\ fieldCache' =
          IF thr[self].m = <<>> THEN fieldCache
          ELSE [fieldCache EXCEPT !.maps[thr[self].m] = (thr[self].t :> thr[self].f) @@ @]
    /\ thr' = [thr EXCEPT ![self].pc = "store"]
    /\ UNCHANGED <<pc, block, val, rev, typ, max, wire, enc, dec, sub>>

\* Line 34: newM[t] = f.
AddEntry(self) ==
    /\ thr[self].pc = "add"
    /\ fieldCache' = [fieldCache EXCEPT !.maps[thr[self].newM] =
                                            (thr[self].t :> thr[self].f) @@ @]
    /\ thr' = [thr EXCEPT ![self].pc = "store"]
    /\ UNCHANGED <<pc, block, val, rev, typ, max, wire, enc, dec, sub>>

\* Line 35: fieldCache.value.Store(newM).
StoreSnapshot(self) ==
    /\ thr[self].pc = "store"
    /\ fieldCache' = [fieldCache EXCEPT
                         !.value = thr[self].newM,
                         !.stored = Append(@, [id |-> thr[self].newM, by |-> self,
                                               m |-> fieldCache.maps[thr[self].newM]])]
    /\ thr' = [thr EXCEPT ![self].pc = "unlock"]
    /\ UNCHANGED <<pc, block, val, rev, typ, max, wire, enc, dec, sub>>

\* Lines 36-37: unlock and return f.
UnlockMu(self) ==
    /\ thr[self].pc = "unlock"
    /\ fieldCache' = [fieldCache EXCEPT !.mu = 0]
    /\ thr' = [thr EXCEPT ![self].pc = "idle",
                          ![self].rets = (thr[self].t :> thr[self].f) @@ @]
    /\ UNCHANGED <<pc, block, val, rev, typ, max, wire, enc, dec, sub>>

NextCache ==
    \E self \in 1..CacheThreads :
       \/ CallCached(self)
       \/ LoadSnapshot(self)
       \/ ComputeFields(self)
       \/ LockMu(self)
       \/ ReloadSnapshot(self)
       \/ CopySnapshot(self)
       \/ AddEntry(self)
       \/ StoreSnapshot(self)
       \/ UnlockMu(self)

SpecCache == InitCache /\ [][NextCache]_vars

\* The statements between Lock and Unlock.
WriterSection == {"reload", "copy", "add", "store", "unlock"}

\* C26: the mutex is held by a thread exactly while it is between Lock
\* and Unlock, so the loads of line 18 take no lock; the map a writer
\* stores is a new one holding the entries of the snapshot it loaded under
\* the lock plus its own; a map is never changed after it was stored; the
\* cache points to the map stored last; and the descriptors returned for
\* one type, computed or taken from the cache, are equal.
C26_CacheDiscipline ==
    pc = "cache" =>
        /\ \A self \in 1..CacheThreads :
              /\ (fieldCache.mu = self) <=> (thr[self].pc \in WriterSection)
              /\ thr[self].pc = "add" =>
                    \A i \in 1..Len(fieldCache.stored) :
                       fieldCache.stored[i].id # thr[self].newM
              /\ thr[self].pc \in {"store", "unlock"} =>
                    fieldCache.maps[thr[self].newM]
                       = (thr[self].t :> thr[self].f) @@ MapAt(thr[self].m)
        /\ \A i \in 1..Len(fieldCache.stored) :
              fieldCache.maps[fieldCache.stored[i].id] = fieldCache.stored[i].m
        /\ fieldCache.value = IF fieldCache.stored = <<>> THEN <<>>
                              ELSE fieldCache.stored[Len(fieldCache.stored)].id
        /\ \A a \in 1..CacheThreads : \A t \in DOMAIN thr[a].rets :
              /\ \A b \in 1..CacheThreads :
                    t \in DOMAIN thr[b].rets => thr[a].rets[t] = thr[b].rets[t]
              /\ t \in DOMAIN MapAt(fieldCache.value) =>
                    MapAt(fieldCache.value)[t] = thr[a].rets[t]

\* C26 witness: two threads computed the descriptor of the same type, one
\* of them having loaded the snapshot while the other held the mutex, both
\* stored a map and both returned.
C26_Witness ==
    /\ pc = "cache"
    /\ Len(fieldCache.stored) = 2
    /\ fieldCache.stored[1].by # fieldCache.stored[2].by
    /\ \A self \in {1, 2} : thr[self].pc = "idle" /\ thr[self].t = TaggedRec
    /\ \E self \in {1, 2} : thr[self].held \notin {0, self}

\* C27: once a call of cachedTypeFields for a type has returned, the
\* snapshot the cache points to holds an entry for that type, in every
\* later state, whatever the interleaving of the writers.
C27_NoLostEntry ==
    pc = "cache" =>
        \A self \in 1..CacheThreads : \A t \in DOMAIN thr[self].rets :
           t \in DOMAIN MapAt(fieldCache.value)

\* C27 witness: two threads that both loaded the empty cache stored the
\* descriptors of two different types, and the snapshot holds both.
C27_Witness ==
    /\ pc = "cache"
    /\ Len(fieldCache.stored) = 2
    /\ thr[1].pc = "idle" /\ thr[2].pc = "idle"
    /\ thr[1].t # thr[2].t
    /\ thr[1].held = 0 /\ thr[2].held = 0
    /\ DOMAIN MapAt(fieldCache.value) = CacheTypes

\* The errors with which a sub-decoder rejects a call.
Rejections == {"too many", "expected key", "expected value"}

\* The element, key and value calls on a sub-decoder.
CountedCalls == {"Elem", "Str", "Key", "DecodeValue"}

MaxChunk == 3

MaxSplits == 3

\* The schedules of read sizes: up to MaxSplits reads of 1..MaxChunk bytes,
\* after which the source returns all that is asked for.
Splits == UNION {[1..n -> 1..MaxChunk] : n \in 0..MaxSplits}

\* The tokens: the read that is due, the value that was written (integers
\* widened to 64 bits), its bytes.
ReadTokens ==
    {[kind |-> "int16", v |-> I64Of(n), bytes |-> writeInt16(FALSE, n)] : n \in {258, -2}} \cup
    {[kind |-> "int32", v |-> I64Of(n), bytes |-> writeInt32(FALSE, n)] : n \in {16909060, -2}} \cup
    {[kind |-> "int64", v |-> I64Of(n), bytes |-> writeInt64(FALSE, I64Of(n))] : n \in {16909060}} \cup
    {[kind |-> "string", v |-> x, bytes |-> writeString(FALSE, x)] :
        x \in {<<>>, <<97>>, <<97, 98>>, <<97, 98, 99>>}}

\* The read of the token of kind k from r: [err, v, r], integers widened
\* to 64 bits.
ReadOf(k, r) ==
    CASE k = "int16" -> Widen(readInt16(r))
      [] k = "int32" -> Widen(readInt32(r))
      [] k = "int64" -> readInt64(r)
      [] OTHER -> readString(r, DefaultMaxCollectionAlloc)

InitRead ==
    /\ pc = "source"
    /\ block = FALSE
    /\ \E t \in ReadTokens, sp \in Splits, cut \in 0..1 :
          /\ Len(t.bytes) >= cut
          /\ val = [kind |-> t.kind, v |-> t.v, split |-> sp, cut |-> cut]
          /\ wire = SubSeq(t.bytes, 1, Len(t.bytes) - cut)
    /\ rev = FALSE
    /\ typ = Nil
    /\ max = DefaultMaxCollectionAlloc
    /\ enc = NoEnc
    /\ dec = NoDec
    /\ sub = NoSub
    /\ CacheUnused

\* One read of the binary reader on the split source.
ReadToken ==
    /\ pc = "source"
    /\ dec' = Bind(ReadOf(val.kind, NewReaderOver(FALSE, wire, val.split)),
                   LAMBDA x : [st |-> IF x.err THEN "err" ELSE "ok", v |-> x.v,
                               left |-> x.r.buf \o x.r.src])
    /\ pc' = "taken"
    /\ UNCHANGED <<block, val, rev, typ, max, wire, enc, sub, fieldCache, thr>>

NextRead == ReadToken

SpecRead == InitRead /\ [][NextRead]_vars

\* C29: a read of a fixed-width integer or of a string from a source that
\* holds the whole token succeeds with the value that was written, whatever
\* the sizes of the source's reads; it fails only when the token is cut
\* short.
C29_SplitIndependence ==
    pc = "taken" =>
        IF val.cut = 0 THEN dec.st = "ok" /\ dec.v = val.v /\ dec.left = <<>>
        ELSE dec.st = "err"

\* C29 witness: a whole four-byte integer that the source hands out in two
\* reads of two bytes was read.
C29_Witness ==
    /\ pc = "taken"
    /\ val.kind = "int32"
    /\ val.cut = 0
    /\ val.split = <<2, 2>>
    /\ wire = <<1, 2, 3, 4>>

(***************************************************************************)
(* The indent counter of the encoder.  EncodeArray and EncodeObject run    *)
(* step by step: the start of the call (indent++, the prelude), one turn   *)
(* of the loop for every element the callback returns, and the part after  *)
(* the loop (indent--, the end marker of an unbounded container, the new   *)
(* line).  enc is the encoder: indent is Encoder.indent, b what the last   *)
(* step wrote, stack the calls of EncodeArray /                            *)
(* EncodeObject that have not returned, innermost last.  A frame keeps the *)
(* call's arguments (kind, typed, count), the number of elements its       *)
(* callback has still to return (left), the indent when the call began     *)
(* (start) and the number of tabs of the line its start marker stands on   *)
(* (col).  op is the last step, line the number of tabs of the line the    *)
(* last element or start marker was put on, closed the frame of the call   *)
(* that returned in the last step and after the frame of the call that     *)
(* returned in the step before the last (<<>>: none), calls the number of  *)
(* Encode calls on this encoder.                                           *)
(***************************************************************************)
MaxDepth == 2

MaxElems == 2

MaxEncodes == 2

IndentKey == <<97>>

IndentElem == V("uint8", 7)

Top(stack) == stack[Len(stack)]

Pop(stack) == SubSeq(stack, 1, Len(stack) - 1)

\* The number of tabs newLine puts on the new line.
LineTabs(b, ind) == Len(newLine(b, ind)) - 1

\* What the loop of the enclosing call writes before an element: the new
\* line and, in an object, the key.  Nothing at the top level.
ElemLead(b, e) ==
    IF e.stack = <<>> THEN <<>>
    ELSE newLine(b, e.indent) \o
         (IF Top(e.stack).kind = "object" THEN StringData(b, IndentKey) ELSE <<>>)

\* The enclosing frames after their loop has taken one more element.
Taken(stack) ==
    IF stack = <<>> THEN stack ELSE [stack EXCEPT ![Len(stack)].left = @ - 1]

InitIndent ==
    /\ pc = "encoding"
    /\ block \in BOOLEAN
    /\ val = Nil
    /\ rev = FALSE
    /\ typ = Nil
    /\ max = DefaultMaxCollectionAlloc
    /\ wire = <<>>
    /\ enc = [indent |-> 0, b |-> <<>>, stack |-> <<>>, op |-> "none", line |-> 0,
              closed |-> <<>>, after |-> <<>>, calls |-> 1]
    /\ dec = NoDec
    /\ sub = NoSub
    /\ CacheUnused

\* The start of EncodeArray / EncodeObject as the data encoder of a
\* container that is the top-level value or an element: the marker, then
\* indent++ and the prelude.
StartContainer(kind, typed, count, n) ==
    /\ pc = "encoding"
    /\ Len(enc.stack) < MaxDepth
    /\ IF enc.stack = <<>> THEN enc.op = "none"
       ELSE Top(enc.stack).left > 0 /\ ~Top(enc.stack).typed
    /\ enc' = [enc EXCEPT
          !.b = ElemLead(block, enc) \o
                writeType(block, IF kind = "array" THEN ArrayStartMarker ELSE ObjectStartMarker) \o
                (IF typed THEN writeType(block, typeMarker) \o writeType(block, UInt8Marker)
                 ELSE <<>>) \o
                (IF count >= 0 THEN writeType(block, countMarker) \o EncodeInt(block, I64Of(count))
                 ELSE <<>>),
          !.indent = @ + 1,
          !.stack = Append(Taken(enc.stack),
                           [kind |-> kind, typed |-> typed, count |-> count, left |-> n,
                            start |-> enc.indent,
                            col |-> IF enc.stack = <<>> THEN 0 ELSE LineTabs(block, enc.indent)]),
          !.op = "start",
          !.line = IF enc.stack = <<>> THEN 0 ELSE LineTabs(block, enc.indent),
          !.closed = <<>>,
          !.after = enc.closed]
    /\ UNCHANGED <<pc, block, val, rev, typ, max, wire, dec, sub, fieldCache, thr>>

EncodeArrayStart ==
    \E typed \in BOOLEAN, bounded \in BOOLEAN, n \in 0..MaxElems :
        StartContainer("array", typed, IF bounded THEN n ELSE -1, n)

EncodeObjectStart ==
    \E typed \in BOOLEAN, bounded \in BOOLEAN, n \in 0..MaxElems :
        StartContainer("object", typed, IF bounded THEN n ELSE -1, n)

\* One turn of the loop for a uint8 element: the new line, the key in an
\* object, the marker unless the container is typed, the data.
EncodeElem ==
    /\ pc = "encoding"
    /\ enc.stack # <<>>
    /\ Top(enc.stack).left > 0
    /\ enc' = [enc EXCEPT
          !.b = ElemLead(block, enc) \o
                (IF Top(enc.stack).typed THEN <<>> ELSE writeType(block, UInt8Marker)) \o
                IntData(block, IndentElem),
          !.stack = Taken(enc.stack),
          !.op = "elem",
          !.line = LineTabs(block, enc.indent),
          !.closed = <<>>,
          !.after = enc.closed]
    /\ UNCHANGED <<pc, block, val, rev, typ, max, wire, dec, sub, fieldCache, thr>>

\* One turn of the loop for an element whose marshaler panics (a pointer):
\* the new line was written, the calls under way never return.
EncodeElemPanics ==
    /\ pc = "encoding"
    /\ enc.stack # <<>>
    /\ Top(enc.stack).left > 0
    /\ enc' = [enc EXCEPT !.b = ElemLead(block, enc), !.op = "panic",
                          !.closed = <<>>, !.after = <<>>]
    /\ pc' = "panicked"
    /\ UNCHANGED <<block, val, rev, typ, max, wire, dec, sub, fieldCache, thr>>

\* The part after the loop with indent-- for unbounded containers only.
EndContainerUnboundedOnly ==
    /\ pc = "encoding"
    /\ enc.stack # <<>>
    /\ Top(enc.stack).left = 0
    /\ \E f \in {Top(enc.stack)} :
       \E ind \in {IF f.count < 0 THEN enc.indent - 1 ELSE enc.indent} :
          /\ enc' = [enc EXCEPT
                !.indent = ind,
                !.b = (IF f.count < 0
                       THEN newLine(block, ind) \o
                            writeType(block, IF f.kind = "array" THEN arrayEndMarker
                                             ELSE objectEndMarker)
                       ELSE <<>>) \o
                      newLine(block, ind),
                !.stack = Pop(enc.stack),
                !.op = "end",
                !.closed = f,
                !.after = <<>>]
          /\ pc' = IF Len(enc.stack) = 1 THEN "done" ELSE "encoding"
    /\ UNCHANGED <<block, val, rev, typ, max, wire, dec, sub, fieldCache, thr>>

\* The part of EncodeArray / EncodeObject after the loop: indent--, for an
\* unbounded container a new line and the end marker, then a new line.
EndContainer ==
    /\ pc = "encoding"
    /\ enc.stack # <<>>
    /\ Top(enc.stack).left = 0
    /\ \E f \in {Top(enc.stack)} :
       \E ind \in {enc.indent - 1} :
          /\ enc' = [enc EXCEPT
                !.indent = ind,
                !.b = (IF f.count < 0
                       THEN newLine(block, ind) \o
                            writeType(block, IF f.kind = "array" THEN arrayEndMarker
                                             ELSE objectEndMarker)
                       ELSE <<>>) \o
                      newLine(block, ind),
                !.stack = Pop(enc.stack),
                !.op = "end",
                !.closed = f,
                !.after = <<>>]
          /\ pc' = IF Len(enc.stack) = 1 THEN "done" ELSE "encoding"
    /\ UNCHANGED <<block, val, rev, typ, max, wire, dec, sub, fieldCache, thr>>

\* The next Encode call on the same encoder, after one that returned nil.
EncodeAgain ==
    /\ pc = "done"
    /\ enc.calls < MaxEncodes
    /\ enc' = [enc EXCEPT !.b = <<>>, !.op = "none", !.line = 0, !.closed = <<>>,
                          !.after = <<>>, !.calls = @ + 1]
    /\ pc' = "encoding"
    /\ UNCHANGED <<block, val, rev, typ, max, wire, dec, sub, fieldCache, thr>>

NextIndent ==
    \/ EncodeArrayStart
    \/ EncodeObjectStart
    \/ EncodeElem
    \/ EncodeElemPanics
    \/ EndContainer
    \/ EncodeAgain

SpecIndent == InitIndent /\ [][NextIndent]_vars

====
